---------------------------- MODULE Spec2Model ----------------------------
(***************************************************************************)
(* A model of the spotjott-server request handlers and of the relational   *)
(* store they share.  Every handler is a sequence of steps, one per store  *)
(* statement it awaits, so that concurrent requests interleave between     *)
(* their statements exactly where the Node event loop lets them.           *)
(***************************************************************************)
EXTENDS Integers, Sequences, FiniteSets, TLC

VARIABLES
    db,     \* the relational store: one field per table, plus the SERIAL counters
    reqs,   \* the requests: inputs, position in the handler, locals, response
    now,    \* the wall clock, in hours
    media   \* the media whose removal the media service has been asked for

vars == <<db, reqs, now, media>>

---------------------------------------------------------------------------
(* Bounds of the model *)

NumUsers == 2
NumJots == 1
NumStories == 1
NumEmotions == 2
MaxReqs == 3
MaxDiaryReqs == 2
MaxTime == 25

UserIds == 1..NumUsers
JotIds == 1..NumJots
StoryIds == 1..NumStories
EmotionIds == 1..NumEmotions
DiaryReqIds == 1..MaxDiaryReqs
ReqIds == 1..MaxReqs

---------------------------------------------------------------------------
(* Errors and the boundary handler *)

AppError(cls, message, statusCode) ==
    [cls |-> cls, name |-> "Error", message |-> message,
     statusCode |-> statusCode, isApp |-> TRUE, isOperational |-> TRUE]

ValidationError(message) == AppError("ValidationError", message, 400)
AuthenticationError(message) == AppError("AuthenticationError", message, 401)
AuthorizationError(message) == AppError("AuthorizationError", message, 403)
NotFoundError(message) == AppError("NotFoundError", message, 404)
ConflictError(message) == AppError("ConflictError", message, 409)
MaxTagsError(message) == AppError("MaxTagsError", message, 400)
RateLimitError(message) == AppError("RateLimitError", message, 429)

\* An error thrown by the Prisma client for a failed statement (P2002 unique
\* constraint, P2003 foreign key, P2025 record not found).
PrismaError(code) ==
    [cls |-> "PrismaClientKnownRequestError", name |-> "PrismaClientKnownRequestError",
     message |-> code, statusCode |-> 0, isApp |-> FALSE, isOperational |-> FALSE]

\* Reading a property of null (currentUser!.firstName on a missing row).
TypeError ==
    [cls |-> "TypeError", name |-> "TypeError", message |-> "null",
     statusCode |-> 0, isApp |-> FALSE, isOperational |-> FALSE]

\* new Error(message)
PlainError(message) ==
    [cls |-> "Error", name |-> "Error", message |-> message,
     statusCode |-> 0, isApp |-> FALSE, isOperational |-> FALSE]

NoResponse == [status |-> 0, thrown |-> "", message |-> ""]

Success(status, message) == [status |-> status, thrown |-> "", message |-> message]

errorHandler(err) ==
    IF err.isApp /\ err.isOperational
    THEN [status |-> err.statusCode, thrown |-> err.cls, message |-> err.message]
    ELSE IF err.name = "PrismaClientKnownRequestError"
    THEN [status |-> 400, thrown |-> err.cls, message |-> "Database operation failed"]
    ELSE IF err.name = "ValidationError"
    THEN [status |-> 400, thrown |-> err.cls, message |-> err.message]
    ELSE [status |-> 500, thrown |-> err.cls, message |-> "Internal server error"]

---------------------------------------------------------------------------
(* The store *)

Restrict(f, S) == [x \in S |-> f[x]]

\* bcrypt.hash(password, 10)
Hash(password) == <<"bcrypt">> \o password

\* profilePicturePublicId <<>> is null: the user has no picture.
UserRow(email, password, picture) ==
    [email |-> email, password |-> Hash(password),
     followersCount |-> 0, followingCount |-> 0,
     profilePicturePublicId |-> picture]

\* User u registered as a@x.y, b@x.y, ... with the password "secret"; user 1
\* registered with a profile picture, the others without.
Letters == <<"a", "b", "c", "d", "e", "f">>
EmailOf(u) == <<Letters[u], "@", "x", ".", "y">>
InitialPassword == <<"s", "e", "c", "r", "e", "t">>
InitialPicture(u) == IF u = 1 THEN <<"user_profiles", 1>> ELSE <<>>

\* A jot as prisma.jot.create stores it: the counters have their column
\* default 0; mediaPublicId <<>> is null.
NewJotRow(u, mediaPublicId) ==
    [userId |-> u, reactionsCount |-> 0, commentsCount |-> 0,
     mediaPublicId |-> mediaPublicId]

\* Jot j was posted with a medium by user ((j - 1) mod NumUsers) + 1.
JotRow(j) == NewJotRow(((j - 1) % NumUsers) + 1, <<"jots", j>>)

\* calculateStoryExpiration: 24 hours after the story is created.
StoryLifetime == 24

calculateStoryExpiration(t) == t + StoryLifetime

\* A story as prisma.story.create stores it at time t.
NewStoryRow(u, t, mediaUrl) ==
    [userId |-> u, expiresAt |-> calculateStoryExpiration(t), viewsCount |-> 0,
     mediaUrl |-> mediaUrl]

\* Story s was posted at time 0 by user ((s - 1) mod NumUsers) + 1.
StoryRow(s) == NewStoryRow(((s - 1) % NumUsers) + 1, 0, <<"stories", s>>)

\* The store once the users have registered and the jots and stories have been
\* posted: every counter has its column default, and no child row exists yet.
\* Every user starts with one private diary, whose id is the user's.
DiaryRow(u) == [userId |-> u, isPublic |-> FALSE]

\* coverImage <<>> is null: the entry has no cover.
EntryRow(u, diaryId, coverImage) ==
    [userId |-> u, diaryId |-> diaryId, coverImage |-> coverImage]

InitDb ==
    [users |-> [u \in UserIds |-> UserRow(EmailOf(u), InitialPassword, InitialPicture(u))],
     follows |-> {},
     jots |-> [j \in JotIds |-> JotRow(j)],
     jotReactions |-> {},
     jotComments |-> {},
     stories |-> [s \in StoryIds |-> StoryRow(s)],
     storyViews |-> {},
     emotions |-> EmotionIds,
     emotionTrackers |-> {},
     diaries |-> [u \in UserIds |-> DiaryRow(u)],
     diaryEntries |-> [e \in {1} |-> EntryRow(1, 1, <<"diary-entries", 1>>)],
     tags |-> {},
     diaryEntryTags |-> {},
     notifications |-> {},
     seq |-> [users |-> NumUsers + 1, jots |-> NumJots + 1, stories |-> NumStories + 1,
              follows |-> 1, jotReactions |-> 1, jotComments |-> 1,
              storyViews |-> 1, emotionTrackers |-> 1, diaryEntries |-> 2,
              tags |-> 1, diaryEntryTags |-> 1, notifications |-> 1]]

\* The result of a store statement: an error code ("" when it succeeded) and
\* the store after it.
Ok(d) == [err |-> "", db |-> d]
Fail(code, d) == [err |-> code, db |-> d]

UserExists(d, u) == u \in DOMAIN d.users

FollowRows(d, a, b) == {f \in d.follows : f.followerId = a /\ f.followingId = b}

\* prisma.follow.create: the unique index on (followerId, followingId) and the
\* two foreign keys to Users decide whether the row is stored.
FollowCreate(d, a, b) ==
    IF FollowRows(d, a, b) # {} THEN Fail("P2002", d)
    ELSE IF ~UserExists(d, a) \/ ~UserExists(d, b) THEN Fail("P2003", d)
    ELSE Ok([d EXCEPT !.follows = @ \cup {[id |-> d.seq.follows, followerId |-> a,
                                            followingId |-> b]},
                      !.seq.follows = @ + 1])

\* Faulty variant: deleteMany semantics, which succeed when no row has the id.
FollowDeleteMany(d, id) == Ok([d EXCEPT !.follows = {f \in @ : f.id # id}])

\* prisma.follow.delete({where: {id}})
FollowDelete(d, id) ==
    IF \E f \in d.follows : f.id = id
    THEN Ok([d EXCEPT !.follows = {f \in @ : f.id # id}])
    ELSE Fail("P2025", d)

\* prisma.user.update with a relative increment or decrement of one counter,
\* evaluated by the store on the row's current value.
UserAdd(d, u, field, delta) ==
    IF UserExists(d, u)
    THEN Ok([d EXCEPT !.users[u][field] = @ + delta])
    ELSE Fail("P2025", d)

JotExists(d, j) == j \in DOMAIN d.jots

ReactionRows(d, j, u) == {x \in d.jotReactions : x.jotId = j /\ x.userId = u}

\* prisma.jotReaction.create: unique (jotId, userId), foreign keys to Jots and
\* Users.
ReactionCreate(d, j, u, type) ==
    IF ReactionRows(d, j, u) # {} THEN Fail("P2002", d)
    ELSE IF ~JotExists(d, j) \/ ~UserExists(d, u) THEN Fail("P2003", d)
    ELSE Ok([d EXCEPT !.jotReactions = @ \cup {[id |-> d.seq.jotReactions,
                                                 jotId |-> j, userId |-> u,
                                                 reactionType |-> type]},
                      !.seq.jotReactions = @ + 1])

\* prisma.jotReaction.delete({where: {id}})
ReactionDelete(d, id) ==
    IF \E x \in d.jotReactions : x.id = id
    THEN Ok([d EXCEPT !.jotReactions = {x \in @ : x.id # id}])
    ELSE Fail("P2025", d)

\* prisma.jotComment.create: foreign keys to Jots and Users, no unique index.
CommentCreate(d, j, u) ==
    IF ~JotExists(d, j) \/ ~UserExists(d, u) THEN Fail("P2003", d)
    ELSE Ok([d EXCEPT !.jotComments = @ \cup {[id |-> d.seq.jotComments,
                                                jotId |-> j, userId |-> u]},
                      !.seq.jotComments = @ + 1])

\* prisma.jotComment.delete({where: {id}})
CommentDelete(d, id) ==
    IF \E x \in d.jotComments : x.id = id
    THEN Ok([d EXCEPT !.jotComments = {x \in @ : x.id # id}])
    ELSE Fail("P2025", d)

\* Faulty variant: the counter is written as a value instead of being incremented.
JotSet(d, j, field, delta) ==
    IF j \in DOMAIN d.jots
    THEN Ok([d EXCEPT !.jots[j][field] = delta])
    ELSE Fail("P2025", d)

\* prisma.jot.update with a relative increment or decrement of one counter.
JotAdd(d, j, field, delta) ==
    IF JotExists(d, j)
    THEN Ok([d EXCEPT !.jots[j][field] = @ + delta])
    ELSE Fail("P2025", d)

StoryExists(d, s) == s \in DOMAIN d.stories

StoryViewRows(d, s, v) == {x \in d.storyViews : x.storyId = s /\ x.viewerId = v}

\* Faulty variant: the table without its unique index on (storyId, viewerId).
StoryViewCreateNoIndex(d, s, v) ==
    IF ~(s \in DOMAIN d.stories) \/ ~UserExists(d, v) THEN Fail("P2003", d)
    ELSE Ok([d EXCEPT !.storyViews = @ \cup {[id |-> d.seq.storyViews,
                                               storyId |-> s, viewerId |-> v]},
                      !.seq.storyViews = @ + 1])

\* prisma.storyView.create: unique (storyId, viewerId), foreign keys to Stories
\* and Users.
StoryViewCreate(d, s, v) ==
    IF StoryViewRows(d, s, v) # {} THEN Fail("P2002", d)
    ELSE IF ~StoryExists(d, s) \/ ~UserExists(d, v) THEN Fail("P2003", d)
    ELSE Ok([d EXCEPT !.storyViews = @ \cup {[id |-> d.seq.storyViews,
                                               storyId |-> s, viewerId |-> v]},
                      !.seq.storyViews = @ + 1])

\* prisma.story.update with a relative increment of viewsCount.
StoryAdd(d, s, delta) ==
    IF StoryExists(d, s)
    THEN Ok([d EXCEPT !.stories[s].viewsCount = @ + delta])
    ELSE Fail("P2025", d)

\* prisma.emotionTracker.create: foreign keys to Users and Emotions; the table
\* has no unique index besides its primary key.
TrackerCreate(d, u, e, date) ==
    IF ~UserExists(d, u) \/ e \notin d.emotions THEN Fail("P2003", d)
    ELSE Ok([d EXCEPT !.emotionTrackers = @ \cup {[id |-> d.seq.emotionTrackers,
                                                    userId |-> u, emotionId |-> e,
                                                    date |-> date]},
                      !.seq.emotionTrackers = @ + 1])

\* prisma.emotionTracker.count({where: {emotionId}})
TrackersOf(d, e) == {x \in d.emotionTrackers : x.emotionId = e}

\* prisma.emotion.delete({where: {id}}): the trackers that name the emotion go
\* with it (EmotionTrackers_emotionId_fkey, ON DELETE CASCADE).
EmotionDelete(d, e) ==
    IF e \notin d.emotions THEN Fail("P2025", d)
    ELSE Ok([d EXCEPT !.emotions = @ \ {e},
                      !.emotionTrackers = {x \in @ : x.emotionId # e}])

\* prisma.emotionTracker.update({where: {id}, data: {emotionId}})
TrackerUpdate(d, id, e) ==
    IF ~(\E x \in d.emotionTrackers : x.id = id) THEN Fail("P2025", d)
    ELSE IF e \notin d.emotions THEN Fail("P2003", d)
    ELSE Ok([d EXCEPT !.emotionTrackers =
                {IF x.id = id THEN [x EXCEPT !.emotionId = e] ELSE x : x \in @}])

\* prisma.user.findUnique({where: {email}})
UsersByEmail(d, email) == {u \in DOMAIN d.users : d.users[u].email = email}

\* prisma.user.create: the unique index on email decides whether the row is
\* stored. The new id is d.seq.users.
UserCreate(d, email, password, picture) ==
    IF UsersByEmail(d, email) # {} THEN Fail("P2002", d)
    ELSE Ok([d EXCEPT !.users = [u \in DOMAIN @ \cup {d.seq.users} |->
                                    IF u \in DOMAIN @ THEN @[u]
                                    ELSE UserRow(email, password, picture)],
                      !.seq.users = @ + 1])

\* prisma.user.update({where: {id}, data: {profilePicture, profilePicturePublicId}})
UserSetPicture(d, u, picture) ==
    IF ~UserExists(d, u) THEN Fail("P2025", d)
    ELSE Ok([d EXCEPT !.users[u].profilePicturePublicId = picture])

\* prisma.jot.create: foreign key to Users. The new id is d.seq.jots.
JotCreate(d, u, mediaPublicId) ==
    IF ~UserExists(d, u) THEN Fail("P2003", d)
    ELSE Ok([d EXCEPT !.jots = [j \in DOMAIN @ \cup {d.seq.jots} |->
                                   IF j \in DOMAIN @ THEN @[j]
                                   ELSE NewJotRow(u, mediaPublicId)],
                      !.seq.jots = @ + 1])

\* prisma.story.create: foreign key to Users. The new id is d.seq.stories.
StoryCreate(d, u, t, mediaUrl) ==
    IF ~UserExists(d, u) THEN Fail("P2003", d)
    ELSE Ok([d EXCEPT !.stories = [s \in DOMAIN @ \cup {d.seq.stories} |->
                                      IF s \in DOMAIN @ THEN @[s]
                                      ELSE NewStoryRow(u, t, mediaUrl)],
                      !.seq.stories = @ + 1])

\* prisma.jot.delete({where: {id}}): its reactions and comments go with it.
JotDelete(d, j) ==
    IF ~JotExists(d, j) THEN Fail("P2025", d)
    ELSE Ok([d EXCEPT !.jots = Restrict(@, DOMAIN @ \ {j}),
                      !.jotReactions = {x \in @ : x.jotId # j},
                      !.jotComments = {x \in @ : x.jotId # j}])

\* prisma.story.delete({where: {id}}): its views go with it.
StoryDelete(d, s) ==
    IF ~StoryExists(d, s) THEN Fail("P2025", d)
    ELSE Ok([d EXCEPT !.stories = Restrict(@, DOMAIN @ \ {s}),
                      !.storyViews = {x \in @ : x.storyId # s}])

\* prisma.diaryEntry.delete({where: {id}}): its tag links go with it.
EntryDelete(d, e) ==
    IF e \notin DOMAIN d.diaryEntries THEN Fail("P2025", d)
    ELSE Ok([d EXCEPT !.diaryEntries = Restrict(@, DOMAIN @ \ {e}),
                      !.diaryEntryTags = {x \in @ : x.diaryEntryId # e}])

\* prisma.diary.update({where: {id}, data}): the name and the description are
\* not part of the state; isPublic is "true", "false" or "undefined" (absent).
DiaryUpdate(d, id, isPublic) ==
    IF id \notin DOMAIN d.diaries THEN Fail("P2025", d)
    ELSE IF isPublic = "undefined" THEN Ok(d)
    ELSE Ok([d EXCEPT !.diaries[id].isPublic = (isPublic = "true")])

\* prisma.diary.delete({where: {id}}): the entries of the diary and their tag
\* links go with it (ON DELETE CASCADE).
DiaryDelete(d, id) ==
    IF id \notin DOMAIN d.diaries THEN Fail("P2025", d)
    ELSE LET entriesLeft == {e \in DOMAIN d.diaryEntries :
                                d.diaryEntries[e].diaryId # id}
         IN Ok([d EXCEPT
                  !.diaries = Restrict(@, DOMAIN @ \ {id}),
                  !.diaryEntries = Restrict(@, entriesLeft),
                  !.diaryEntryTags = {x \in @ : x.diaryEntryId \in entriesLeft}])

\* prisma.diaryEntry.findMany({where: {diaryId}}) and prisma.diaryEntry.count
EntriesOf(d, diaryId) ==
    {e \in DOMAIN d.diaryEntries : d.diaryEntries[e].diaryId = diaryId}

\* prisma.diaryEntry.create: foreign keys to Users and Diaries. The new id is
\* d.seq.diaryEntries.
EntryCreate(d, u, diaryId, coverImage) ==
    IF ~UserExists(d, u) \/ diaryId \notin DOMAIN d.diaries THEN Fail("P2003", d)
    ELSE Ok([d EXCEPT !.diaryEntries =
                          [e \in DOMAIN @ \cup {d.seq.diaryEntries} |->
                              IF e \in DOMAIN @ THEN @[e]
                              ELSE EntryRow(u, diaryId, coverImage)],
                      !.seq.diaryEntries = @ + 1])

\* prisma.diaryEntry.update({where: {id}}): title, content and favorite are
\* not part of the state.
EntryUpdate(d, e) ==
    IF e \notin DOMAIN d.diaryEntries THEN Fail("P2025", d) ELSE Ok(d)

\* prisma.tag.findFirst({where: {name, userId}})
TagRows(d, name, u) == {t \in d.tags : t.name = name /\ t.userId = u}

\* prisma.tag.create: a foreign key to Users, no unique index on (name, userId).
\* The new id is d.seq.tags.
TagCreate(d, name, u) ==
    IF ~UserExists(d, u) THEN Fail("P2003", d)
    ELSE Ok([d EXCEPT !.tags = @ \cup {[id |-> d.seq.tags, name |-> name, userId |-> u]},
                      !.seq.tags = @ + 1])

EntryTagRows(d, e) == {x \in d.diaryEntryTags : x.diaryEntryId = e}

\* prisma.diaryEntryTag.create: unique on (diaryEntryId, tagId), foreign keys to
\* DiaryEntries and Tags.
EntryTagCreate(d, e, t) ==
    IF \E x \in d.diaryEntryTags : x.diaryEntryId = e /\ x.tagId = t
    THEN Fail("P2002", d)
    ELSE IF e \notin DOMAIN d.diaryEntries \/ ~(\E x \in d.tags : x.id = t)
    THEN Fail("P2003", d)
    ELSE Ok([d EXCEPT !.diaryEntryTags = @ \cup {[id |-> d.seq.diaryEntryTags,
                                                  diaryEntryId |-> e, tagId |-> t]},
                      !.seq.diaryEntryTags = @ + 1])

\* prisma.diaryEntryTag.deleteMany({where: {diaryEntryId}})
EntryTagDeleteMany(d, e) ==
    Ok([d EXCEPT !.diaryEntryTags = {x \in @ : x.diaryEntryId # e}])

\* prisma.notification.create
NotificationCreate(d, userId, senderId, type) ==
    IF ~UserExists(d, userId) \/ ~UserExists(d, senderId) THEN Fail("P2003", d)
    ELSE Ok([d EXCEPT !.notifications = @ \cup {[id |-> d.seq.notifications,
                                                  userId |-> userId,
                                                  senderId |-> senderId,
                                                  type |-> type]},
                      !.seq.notifications = @ + 1])

\* prisma.user.delete: the row goes, and with it (ON DELETE CASCADE) every row
\* that references it, directly or through a jot of the user; a notification
\* the user sent keeps its row with senderId NULL (0 here).  No statement of
\* the cascade touches a counter column of a surviving row.
UserDelete(d, u) ==
    IF ~UserExists(d, u) THEN Fail("P2025", d)
    ELSE LET jotsLeft == {j \in DOMAIN d.jots : d.jots[j].userId # u}
             storiesLeft == {x \in DOMAIN d.stories : d.stories[x].userId # u}
             diariesLeft == {x \in DOMAIN d.diaries : d.diaries[x].userId # u}
             entriesLeft == {x \in DOMAIN d.diaryEntries :
                                /\ d.diaryEntries[x].userId # u
                                /\ d.diaryEntries[x].diaryId \in diariesLeft}
             tagsLeft == {x \in d.tags : x.userId # u}
         IN Ok([d EXCEPT
                  !.users = Restrict(@, DOMAIN @ \ {u}),
                  !.follows = {f \in @ : f.followerId # u /\ f.followingId # u},
                  !.jots = Restrict(@, jotsLeft),
                  !.jotReactions = {x \in @ : x.userId # u /\ x.jotId \in jotsLeft},
                  !.jotComments = {x \in @ : x.userId # u /\ x.jotId \in jotsLeft},
                  !.stories = Restrict(@, storiesLeft),
                  !.storyViews = {x \in @ : x.viewerId # u /\ x.storyId \in storiesLeft},
                  !.emotionTrackers = {x \in @ : x.userId # u},
                  !.diaries = Restrict(@, diariesLeft),
                  !.diaryEntries = Restrict(@, entriesLeft),
                  !.tags = tagsLeft,
                  !.diaryEntryTags =
                      {x \in @ : /\ x.diaryEntryId \in entriesLeft
                                 /\ x.tagId \in {t.id : t \in tagsLeft}},
                  !.notifications =
                      {IF n.senderId = u THEN [n EXCEPT !.senderId = 0] ELSE n :
                          n \in {m \in @ : m.userId # u}}])

\* One statement of a transaction, as data.
Exec(d, s) ==
    CASE s.op = "follow.create" -> FollowCreate(d, s.a, s.b)
      [] s.op = "follow.delete" -> FollowDelete(d, s.a)
      [] s.op = "user.add" -> UserAdd(d, s.a, s.field, s.b)
      [] s.op = "reaction.create" -> ReactionCreate(d, s.a, s.b, s.field)
      [] s.op = "reaction.delete" -> ReactionDelete(d, s.a)
      [] s.op = "comment.create" -> CommentCreate(d, s.a, s.b)
      [] s.op = "comment.delete" -> CommentDelete(d, s.a)
      [] s.op = "jot.add" -> JotAdd(d, s.a, s.field, s.b)

RECURSIVE RunAll(_, _)
RunAll(d, stmts) ==
    IF stmts = <<>> THEN Ok(d)
    ELSE LET r == Exec(d, Head(stmts))
         IN IF r.err # "" THEN r ELSE RunAll(r.db, Tail(stmts))

\* prisma.$transaction([...]): the statements run in order; if one fails the
\* store is left as it was before the first.
Transaction(d, stmts) ==
    LET r == RunAll(d, stmts)
    IN IF r.err # "" THEN Fail(r.err, d) ELSE r

---------------------------------------------------------------------------
(* Requests *)

\* uid is req.user.id, target the id in the path, text a body field; owner and
\* loc hold what the handler has read from the store so far.  seen and pre are
\* history only: the requests already answered when this one arrived, and the
\* counter the request is about as it stood then.
\* A value of a JSON body: absent, a string (its characters) or an array of
\* strings.
Undefined == [kind |-> "undefined", chars |-> <<>>, items |-> <<>>]
Str(chars) == [kind |-> "string", chars |-> chars, items |-> <<>>]
Arr(items) == [kind |-> "array", chars |-> <<>>, items |-> items]

\* req.body of the diary entry handlers; diaryId 0 is an absent one and -1 one
\* that parseInt turns into NaN.
Body(title, content, diaryId, tags) ==
    [title |-> title, content |-> content, diaryId |-> diaryId, tags |-> tags]

NoBody == Body(Undefined, Undefined, 0, Undefined)

\* A bearer token: a string jwtDecode cannot read ("garbage"), or a JWT whose
\* payload names user id and expires at exp (0: no exp claim) and whose
\* signature was made with the server's secret (signed) or was not.
Jwt(id, exp, signed) == [kind |-> "jwt", id |-> id, exp |-> exp, signed |-> signed]
Garbage == [kind |-> "garbage", id |-> 0, exp |-> 0, signed |-> FALSE]
NoToken == [kind |-> "none", id |-> 0, exp |-> 0, signed |-> FALSE]

\* The Authorization header, split at its spaces: the first part and the
\* parts after it. No part at all is the header that is absent or empty.
Header(scheme, rest) == [scheme |-> scheme, rest |-> rest]
NoHeader == Header("", <<>>)

\* The result of uploadImage: whether the media service stored the file, and
\* the name it gave it; asked is FALSE while the handler has not called it.
UploadResult(success, url) == [asked |-> TRUE, success |-> success, url |-> url]
NoUpload == [asked |-> FALSE, success |-> FALSE, url |-> <<>>]

\* uploadImage(file, folder) for request r: the media service stores the file
\* under a new name in the folder, or fails, and a failure of the service is
\* caught and returned as {success: false}.  The name of the medium stored for
\* request r is <<folder, -r>>; the names of the media of Init are positive.
uploadImage(r, folder) ==
    {UploadResult(TRUE, <<folder, 0 - r>>), UploadResult(FALSE, <<>>)}

\* History only: the diary entries, tags and tag links of store d.
Snapshot(d) ==
    [diaryEntries |-> d.diaryEntries, tags |-> d.tags, diaryEntryTags |-> d.diaryEntryTags]

\* No page has been computed for the request.
NoPagination == [page |-> 0, limit |-> 0, offset |-> 0]

Idle ==
    [op |-> "idle", pc |-> "idle", uid |-> 0, target |-> 0, text |-> "",
     body |-> NoBody, owner |-> 0, loc |-> 0, val |-> 0, names |-> <<>>,
     idx |-> 0, image |-> <<>>, hash |-> <<>>, file |-> FALSE, upload |-> NoUpload,
     pagination |-> NoPagination,
     header |-> NoHeader, token |-> NoToken, res |-> NoResponse, seen |-> {}, pre |-> 0,
     snap |-> Snapshot(InitDb)]

NewRequest(op, uid, target, text, seen, pre) ==
    [op |-> op, pc |-> "start", uid |-> uid, target |-> target, text |-> text,
     body |-> NoBody, owner |-> 0, loc |-> 0, val |-> 0, names |-> <<>>,
     idx |-> 0, image |-> <<>>, hash |-> <<>>, file |-> FALSE, upload |-> NoUpload,
     pagination |-> NoPagination,
     header |-> NoHeader, token |-> NoToken, res |-> NoResponse, seen |-> seen, pre |-> pre,
     snap |-> Snapshot(db)]

Answered == {q \in ReqIds : reqs[q].pc = "done"}

CounterBefore(op, target) ==
    IF op = "toggleReaction" /\ target \in DOMAIN db.jots
    THEN db.jots[target].reactionsCount
    ELSE 0

\* Requests arrive in the order of their slots.
CanStart(r) == /\ reqs[r].op = "idle"
               /\ \A q \in ReqIds : q < r => reqs[q].op # "idle"

At(r, op, pc) == reqs[r].op = op /\ reqs[r].pc = pc

Goto(r, pc) == reqs' = [reqs EXCEPT ![r].pc = pc]

GotoWith(r, pc, loc) == reqs' = [reqs EXCEPT ![r].pc = pc, ![r].loc = loc]

Throw(r, err) == reqs' = [reqs EXCEPT ![r].pc = "done", ![r].res = errorHandler(err)]

Respond(r, status, message) ==
    reqs' = [reqs EXCEPT ![r].pc = "done", ![r].res = Success(status, message)]

Arrive(r, op, uid, target, text) ==
    /\ CanStart(r)
    /\ reqs' = [reqs EXCEPT ![r] = NewRequest(op, uid, target, text, Answered,
                                              CounterBefore(op, target))]
    /\ UNCHANGED <<db, now, media>>

\* deleteImage(publicId): the media service is asked to destroy the medium;
\* whether it does is not reported to the caller.
deleteImage(publicId) == media' = media \cup {publicId}

\* A row has been loaded and its owner is the caller: on to the removal of its
\* medium if it has one, else to the removal of the row.
GotoDelete(r, image) ==
    reqs' = [reqs EXCEPT ![r].image = image,
                         ![r].pc = IF image # <<>> THEN "deleteImage" ELSE "delete"]

\* A request to a protected route: the caller is whoever authenticate reads
\* from the header.
ArriveWithHeader(r, op, target, header) ==
    /\ CanStart(r)
    /\ reqs' = [reqs EXCEPT ![r] = [NewRequest(op, 0, target, "", Answered, 0)
                                      EXCEPT !.header = header,
                                             !.pc = "authenticate"]]
    /\ UNCHANGED <<db, now, media>>

ArriveWithBody(r, op, uid, target, body) ==
    /\ CanStart(r)
    /\ reqs' = [reqs EXCEPT ![r] = [NewRequest(op, uid, target, "", Answered, 0)
                                      EXCEPT !.body = body]]
    /\ UNCHANGED <<db, now, media>>

\* A multipart request: file is whether req.file is there.
ArriveWithFile(r, op, uid, body, file) ==
    /\ CanStart(r)
    /\ reqs' = [reqs EXCEPT ![r] = [NewRequest(op, uid, 0, "", Answered, 0)
                                      EXCEPT !.body = body, !.file = file]]
    /\ UNCHANGED <<db, now, media>>

---------------------------------------------------------------------------
(* The authenticate middleware *)

\* The expiry claims tokens carry: none (0), one hour that the clock reaches,
\* and one it does not.
ExpInputs == {0, MaxTime - 1, MaxTime + 1}

TokenInputs ==
    {Garbage} \cup {Jwt(u, e, g) : u \in UserIds, e \in ExpInputs, g \in BOOLEAN}

\* The headers requests carry: none, "Bearer <token>", another scheme, the
\* scheme in lower case, the scheme alone, and a third part after the token.
HeaderInputs ==
    {NoHeader}
    \cup {Header("Bearer", <<t>>) : t \in TokenInputs}
    \cup {Header("Basic", <<Jwt(1, 0, TRUE)>>), Header("bearer", <<Jwt(1, 0, TRUE)>>),
          Header("Bearer", <<>>), Header("Bearer", <<Jwt(1, 0, TRUE), Garbage>>)}

\* decoded.exp && decoded.exp * 1000 < Date.now()
TokenExpired(decoded, t) == decoded.exp # 0 /\ decoded.exp < t

\* What authenticate does with a header at time t: the id it attaches to the
\* request (next() is called), or the error it answers with status 401.
Authenticated(header, t) ==
    IF header.scheme = ""
    THEN [ok |-> FALSE, id |-> 0, error |-> "Access denied. No token provided."]
    ELSE IF 1 + Len(header.rest) # 2 \/ header.scheme # "Bearer"
    THEN [ok |-> FALSE, id |-> 0,
          error |-> "Invalid token format. Expected: Bearer <token>"]
    ELSE IF header.rest[1].kind # "jwt"
    THEN [ok |-> FALSE, id |-> 0, error |-> "Invalid token"]
    ELSE IF TokenExpired(header.rest[1], t)
    THEN [ok |-> FALSE, id |-> 0, error |-> "Token has expired"]
    ELSE [ok |-> TRUE, id |-> header.rest[1].id, error |-> ""]

authenticate(r) ==
    /\ reqs[r].pc = "authenticate"
    /\ LET a == Authenticated(reqs[r].header, now)
       IN IF a.ok
          THEN reqs' = [reqs EXCEPT ![r].pc = "start", ![r].uid = a.id]
          ELSE reqs' = [reqs EXCEPT
                  ![r].pc = "done",
                  ![r].res = [status |-> 401, thrown |-> "AuthenticationError",
                              message |-> a.error]]
    /\ UNCHANGED <<db, now, media>>

---------------------------------------------------------------------------
(* POST /api/users/:id/follow *)

FollowArrive(r) == \E a \in UserIds, b \in UserIds : Arrive(r, "followUser", a, b, "")

\* Faulty variant: the lookup of the user to follow without the self-follow
\* guard.
FollowLoadTargetUnguarded(r) ==
    /\ At(r, "followUser", "start")
    /\ IF ~UserExists(db, reqs[r].target)
       THEN Throw(r, NotFoundError("User not found"))
       ELSE Goto(r, "checkFollow")
    /\ UNCHANGED <<db, now, media>>

\* The self-follow guard and the lookup of the user to follow.
FollowLoadTarget(r) ==
    /\ At(r, "followUser", "start")
    /\ IF reqs[r].uid = reqs[r].target
       THEN Throw(r, ValidationError("You cannot follow yourself"))
       ELSE IF ~UserExists(db, reqs[r].target)
       THEN Throw(r, NotFoundError("User not found"))
       ELSE Goto(r, "checkFollow")
    /\ UNCHANGED <<db, now, media>>

\* Faulty variant: the pre-check looks up the pair the wrong way round.
ExistingFollowReversed(d, a, b) == FollowRows(d, b, a)

\* prisma.follow.findFirst({where: {followerId, followingId}})
ExistingFollow(d, a, b) == FollowRows(d, a, b)

\* The already-following pre-check.
FollowCheckExisting(r) ==
    /\ At(r, "followUser", "checkFollow")
    /\ IF ExistingFollow(db, reqs[r].uid, reqs[r].target) # {}
       THEN Throw(r, ValidationError("Already following this user"))
       ELSE Goto(r, "tx")
    /\ UNCHANGED <<db, now, media>>

FollowStatements(a, b) ==
    << [op |-> "follow.create", a |-> a, b |-> b, field |-> ""],
       [op |-> "user.add", a |-> a, b |-> 1, field |-> "followingCount"],
       [op |-> "user.add", a |-> b, b |-> 1, field |-> "followersCount"] >>

\* The follow row and both counters, in one transaction.
FollowTx(r) ==
    /\ At(r, "followUser", "tx")
    /\ LET t == Transaction(db, FollowStatements(reqs[r].uid, reqs[r].target))
       IN /\ db' = t.db
          /\ IF t.err # "" THEN Throw(r, PrismaError(t.err)) ELSE Goto(r, "loadSender")
    /\ UNCHANGED <<now, media>>

\* The follower's row is read for the notification text.
FollowLoadSender(r) ==
    /\ At(r, "followUser", "loadSender")
    /\ GotoWith(r, "notify", IF UserExists(db, reqs[r].uid) THEN reqs[r].uid ELSE 0)
    /\ UNCHANGED <<db, now, media>>

FollowNotify(r) ==
    /\ At(r, "followUser", "notify")
    /\ IF reqs[r].loc = 0
       THEN Throw(r, TypeError) /\ UNCHANGED db
       ELSE LET t == NotificationCreate(db, reqs[r].target, reqs[r].uid, "follow")
            IN /\ db' = t.db
               /\ IF t.err # "" THEN Throw(r, PrismaError(t.err))
                  ELSE Respond(r, 200, "User followed successfully")
    /\ UNCHANGED <<now, media>>

followUser(r) ==
    \/ FollowLoadTarget(r)
    \/ FollowCheckExisting(r)
    \/ FollowTx(r)
    \/ FollowLoadSender(r)
    \/ FollowNotify(r)

---------------------------------------------------------------------------
(* DELETE /api/users/:id/follow *)

UnfollowArrive(r) == \E a \in UserIds, b \in UserIds : Arrive(r, "unfollowUser", a, b, "")

\* Faulty variant: the lookup's result is not tested before the transaction.
UnfollowFindUnchecked(r) ==
    /\ At(r, "unfollowUser", "start")
    /\ LET rows == FollowRows(db, reqs[r].uid, reqs[r].target)
       IN GotoWith(r, "tx", IF rows = {} THEN 0 ELSE (CHOOSE f \in rows : TRUE).id)
    /\ UNCHANGED <<db, now, media>>

\* prisma.follow.findFirst and the not-following rejection.
UnfollowFind(r) ==
    /\ At(r, "unfollowUser", "start")
    /\ LET rows == FollowRows(db, reqs[r].uid, reqs[r].target)
       IN IF rows = {}
          THEN Throw(r, ValidationError("You are not following this user"))
          ELSE GotoWith(r, "tx", (CHOOSE f \in rows : TRUE).id)
    /\ UNCHANGED <<db, now, media>>

UnfollowStatements(id, a, b) ==
    << [op |-> "follow.delete", a |-> id, b |-> 0, field |-> ""],
       [op |-> "user.add", a |-> a, b |-> -1, field |-> "followingCount"],
       [op |-> "user.add", a |-> b, b |-> -1, field |-> "followersCount"] >>

UnfollowTx(r) ==
    /\ At(r, "unfollowUser", "tx")
    /\ LET t == Transaction(db, UnfollowStatements(reqs[r].loc, reqs[r].uid,
                                                   reqs[r].target))
       IN /\ db' = t.db
          /\ IF t.err # "" THEN Throw(r, PrismaError(t.err))
             ELSE Respond(r, 200, "User unfollowed successfully")
    /\ UNCHANGED <<now, media>>

unfollowUser(r) ==
    \/ UnfollowFind(r)
    \/ UnfollowTx(r)

---------------------------------------------------------------------------
(* DELETE /api/users/me *)

DeleteUserArrive(r) == \E a \in UserIds : Arrive(r, "deleteUser", a, 0, "")

DeleteUserFind(r) ==
    /\ At(r, "deleteUser", "start")
    /\ IF ~UserExists(db, reqs[r].uid)
       THEN Throw(r, NotFoundError("User not found"))
       ELSE GotoDelete(r, db.users[reqs[r].uid].profilePicturePublicId)
    /\ UNCHANGED <<db, now, media>>

DeleteUserImage(r) ==
    /\ At(r, "deleteUser", "deleteImage")
    /\ deleteImage(reqs[r].image)
    /\ Goto(r, "delete")
    /\ UNCHANGED <<db, now>>

DeleteUserDelete(r) ==
    /\ At(r, "deleteUser", "delete")
    /\ LET t == UserDelete(db, reqs[r].uid)
       IN /\ db' = t.db
          /\ IF t.err # "" THEN Throw(r, PrismaError(t.err))
             ELSE Respond(r, 200, "User deleted successfully")
    /\ UNCHANGED <<now, media>>

deleteUser(r) ==
    \/ DeleteUserFind(r)
    \/ DeleteUserImage(r)
    \/ DeleteUserDelete(r)

---------------------------------------------------------------------------
(* POST /api/jots/:jotId/reactions *)

validReactions == {"like", "love", "insightful", "celebrate"}

\* The reaction types requests carry: two of the enumeration and one outside it.
ReactionInputs == {"like", "love", "wow"}

ToggleArrive(r) ==
    \E u \in UserIds, j \in JotIds, t \in ReactionInputs :
        Arrive(r, "toggleReaction", u, j, t)

ToggleLoadJot(r) ==
    /\ At(r, "toggleReaction", "start")
    /\ IF reqs[r].text \notin validReactions
       THEN Throw(r, ValidationError("Invalid reaction type"))
       ELSE IF ~JotExists(db, reqs[r].target)
       THEN Throw(r, NotFoundError("Jot not found"))
       ELSE reqs' = [reqs EXCEPT ![r].pc = "findReaction",
                                 ![r].owner = db.jots[reqs[r].target].userId]
    /\ UNCHANGED <<db, now, media>>

\* prisma.jotReaction.findFirst({where: {jotId, userId}}): the row's id, or 0.
ExistingReaction(d, j, u) ==
    IF ReactionRows(d, j, u) = {} THEN 0 ELSE (CHOOSE x \in ReactionRows(d, j, u) : TRUE).id

ToggleFindReaction(r) ==
    /\ At(r, "toggleReaction", "findReaction")
    /\ LET id == ExistingReaction(db, reqs[r].target, reqs[r].uid)
       IN GotoWith(r, IF id # 0 THEN "txRemove" ELSE "txAdd", id)
    /\ UNCHANGED <<db, now, media>>

\* Faulty variant: the removal forgets the counter.
RemoveReactionOnly(id, j) ==
    << [op |-> "reaction.delete", a |-> id, b |-> 0, field |-> ""] >>

RemoveReactionStatements(id, j) ==
    << [op |-> "reaction.delete", a |-> id, b |-> 0, field |-> ""],
       [op |-> "jot.add", a |-> j, b |-> -1, field |-> "reactionsCount"] >>

ToggleRemoveTx(r) ==
    /\ At(r, "toggleReaction", "txRemove")
    /\ LET t == Transaction(db, RemoveReactionStatements(reqs[r].loc, reqs[r].target))
       IN /\ db' = t.db
          /\ IF t.err # "" THEN Throw(r, PrismaError(t.err))
             ELSE Respond(r, 200, "Reaction removed")
    /\ UNCHANGED <<now, media>>

AddReactionStatements(j, u, type) ==
    << [op |-> "reaction.create", a |-> j, b |-> u, field |-> type],
       [op |-> "jot.add", a |-> j, b |-> 1, field |-> "reactionsCount"] >>

\* Faulty variant: the reaction's notification is sent whoever owns the jot.
ToggleAddTxAlwaysNotify(r) ==
    /\ At(r, "toggleReaction", "txAdd")
    /\ LET t == Transaction(db, AddReactionStatements(reqs[r].target, reqs[r].uid,
                                                      reqs[r].text))
       IN /\ db' = t.db
          /\ IF t.err # "" THEN Throw(r, PrismaError(t.err))
             ELSE Goto(r, "loadSender")
    /\ UNCHANGED <<now, media>>

\* The notification is only for a reaction to somebody else's jot, the owner
\* being the one read with the jot at the start of the request.
ToggleAddTx(r) ==
    /\ At(r, "toggleReaction", "txAdd")
    /\ LET t == Transaction(db, AddReactionStatements(reqs[r].target, reqs[r].uid,
                                                      reqs[r].text))
       IN /\ db' = t.db
          /\ IF t.err # "" THEN Throw(r, PrismaError(t.err))
             ELSE IF reqs[r].owner # reqs[r].uid THEN Goto(r, "loadSender")
             ELSE Respond(r, 200, "Reaction added")
    /\ UNCHANGED <<now, media>>

ToggleLoadReactor(r) ==
    /\ At(r, "toggleReaction", "loadSender")
    /\ GotoWith(r, "notify", IF UserExists(db, reqs[r].uid) THEN reqs[r].uid ELSE 0)
    /\ UNCHANGED <<db, now, media>>

ToggleNotify(r) ==
    /\ At(r, "toggleReaction", "notify")
    /\ IF reqs[r].loc = 0
       THEN Throw(r, TypeError) /\ UNCHANGED db
       ELSE LET t == NotificationCreate(db, reqs[r].owner, reqs[r].uid, "jot_reaction")
            IN /\ db' = t.db
               /\ IF t.err # "" THEN Throw(r, PrismaError(t.err))
                  ELSE Respond(r, 200, "Reaction added")
    /\ UNCHANGED <<now, media>>

toggleReaction(r) ==
    \/ ToggleLoadJot(r)
    \/ ToggleFindReaction(r)
    \/ ToggleRemoveTx(r)
    \/ ToggleAddTx(r)
    \/ ToggleLoadReactor(r)
    \/ ToggleNotify(r)

---------------------------------------------------------------------------
(* POST /api/jots/:jotId/comments *)

MaxCommentLength == 500

\* The comment bodies requests carry: an empty one, a short one, and one of
\* 501 characters.
CommentInputs == {"", "nice", "x501"}

ContentLength(text) == CASE text = "" -> 0 [] text = "nice" -> 4 [] OTHER -> 501

AddCommentArrive(r) ==
    \E u \in UserIds, j \in JotIds, c \in CommentInputs :
        Arrive(r, "addComment", u, j, c)

AddCommentLoadJot(r) ==
    /\ At(r, "addComment", "start")
    /\ IF ContentLength(reqs[r].text) = 0
       THEN Throw(r, ValidationError("Comment content is required"))
       ELSE IF ContentLength(reqs[r].text) > MaxCommentLength
       THEN Throw(r, ValidationError("Comment must be less than 500 characters"))
       ELSE IF ~JotExists(db, reqs[r].target)
       THEN Throw(r, NotFoundError("Jot not found"))
       ELSE reqs' = [reqs EXCEPT ![r].pc = "tx",
                                 ![r].owner = db.jots[reqs[r].target].userId]
    /\ UNCHANGED <<db, now, media>>

\* Faulty variant: the comment is stored without the counter's increment.
AddCommentRowOnly(j, u) ==
    << [op |-> "comment.create", a |-> j, b |-> u, field |-> ""] >>

AddCommentStatements(j, u) ==
    << [op |-> "comment.create", a |-> j, b |-> u, field |-> ""],
       [op |-> "jot.add", a |-> j, b |-> 1, field |-> "commentsCount"] >>

AddCommentTx(r) ==
    /\ At(r, "addComment", "tx")
    /\ LET t == Transaction(db, AddCommentStatements(reqs[r].target, reqs[r].uid))
       IN /\ db' = t.db
          /\ IF t.err # "" THEN Throw(r, PrismaError(t.err))
             ELSE IF reqs[r].owner # reqs[r].uid THEN Goto(r, "loadSender")
             ELSE Respond(r, 201, "")
    /\ UNCHANGED <<now, media>>

AddCommentLoadCommenter(r) ==
    /\ At(r, "addComment", "loadSender")
    /\ GotoWith(r, "notify", IF UserExists(db, reqs[r].uid) THEN reqs[r].uid ELSE 0)
    /\ UNCHANGED <<db, now, media>>

AddCommentNotify(r) ==
    /\ At(r, "addComment", "notify")
    /\ IF reqs[r].loc = 0
       THEN Throw(r, TypeError) /\ UNCHANGED db
       ELSE LET t == NotificationCreate(db, reqs[r].owner, reqs[r].uid, "jot_comment")
            IN /\ db' = t.db
               /\ IF t.err # "" THEN Throw(r, PrismaError(t.err))
                  ELSE Respond(r, 201, "")
    /\ UNCHANGED <<now, media>>

addComment(r) ==
    \/ AddCommentLoadJot(r)
    \/ AddCommentTx(r)
    \/ AddCommentLoadCommenter(r)
    \/ AddCommentNotify(r)

---------------------------------------------------------------------------
(* DELETE /api/jots/comments/:commentId *)

\* The comment ids requests name: a comment's id never exceeds the number of
\* requests made.
CommentIds == 1..MaxReqs

DeleteCommentArrive(r) ==
    \E u \in UserIds, c \in CommentIds : Arrive(r, "deleteComment", u, c, "")

DeleteCommentFind(r) ==
    /\ At(r, "deleteComment", "start")
    /\ LET rows == {x \in db.jotComments : x.id = reqs[r].target}
       IN IF rows = {}
          THEN Throw(r, NotFoundError("Comment not found"))
          ELSE LET comment == CHOOSE x \in rows : TRUE
               IN IF comment.userId # reqs[r].uid
                  THEN Throw(r, AuthorizationError("You can only delete your own comments"))
                  ELSE GotoWith(r, "tx", comment.jotId)
    /\ UNCHANGED <<db, now, media>>

DeleteCommentStatements(id, j) ==
    << [op |-> "comment.delete", a |-> id, b |-> 0, field |-> ""],
       [op |-> "jot.add", a |-> j, b |-> -1, field |-> "commentsCount"] >>

DeleteCommentTx(r) ==
    /\ At(r, "deleteComment", "tx")
    /\ LET t == Transaction(db, DeleteCommentStatements(reqs[r].target, reqs[r].loc))
       IN /\ db' = t.db
          /\ IF t.err # "" THEN Throw(r, PrismaError(t.err))
             ELSE Respond(r, 200, "Comment deleted successfully")
    /\ UNCHANGED <<now, media>>

deleteComment(r) ==
    \/ DeleteCommentFind(r)
    \/ DeleteCommentTx(r)

---------------------------------------------------------------------------
(* POST /api/stories/:id/view *)

ViewStoryArrive(r) ==
    \E u \in UserIds, s \in StoryIds : Arrive(r, "viewStory", u, s, "")

\* new Date() > story.expiresAt
ViewExpired(t, expiresAt) == t > expiresAt

\* The expiry filter of getActiveStories: expiresAt: {gt: now}
NonExpired(d, t) == {s \in DOMAIN d.stories : d.stories[s].expiresAt > t}

ViewStoryLoad(r) ==
    /\ At(r, "viewStory", "start")
    /\ IF ~StoryExists(db, reqs[r].target)
       THEN Throw(r, NotFoundError("Story not found"))
       ELSE IF ViewExpired(now, db.stories[reqs[r].target].expiresAt)
       THEN Throw(r, ValidationError("This story has expired"))
       ELSE Goto(r, "findView")
    /\ UNCHANGED <<db, now, media>>

ViewStoryFindView(r) ==
    /\ At(r, "viewStory", "findView")
    /\ IF StoryViewRows(db, reqs[r].target, reqs[r].uid) # {}
       THEN Respond(r, 200, "Story viewed")
       ELSE Goto(r, "createView")
    /\ UNCHANGED <<db, now, media>>

\* The view row is created by a statement of its own.
ViewStoryCreateView(r) ==
    /\ At(r, "viewStory", "createView")
    /\ LET t == StoryViewCreate(db, reqs[r].target, reqs[r].uid)
       IN /\ db' = t.db
          /\ IF t.err # "" THEN Throw(r, PrismaError(t.err)) ELSE Goto(r, "increment")
    /\ UNCHANGED <<now, media>>

\* The counter is incremented by a second statement, outside any transaction.
ViewStoryIncrement(r) ==
    /\ At(r, "viewStory", "increment")
    /\ LET t == StoryAdd(db, reqs[r].target, 1)
       IN /\ db' = t.db
          /\ IF t.err # "" THEN Throw(r, PrismaError(t.err))
             ELSE Respond(r, 200, "Story viewed")
    /\ UNCHANGED <<now, media>>

viewStory(r) ==
    \/ ViewStoryLoad(r)
    \/ ViewStoryFindView(r)
    \/ ViewStoryCreateView(r)
    \/ ViewStoryIncrement(r)

---------------------------------------------------------------------------
(* POST /api/emotions/track *)

HoursPerDay == 24

\* The emotion ids requests carry: none (0), the catalog's, and one not in it.
EmotionInputs == 0..(NumEmotions + 1)

\* The dates requests carry: none, two times of the first day, one of the
\* second, and a string that is no date.
DateInputs == {"", "1970-01-01T20:00", "1970-01-02T06:00", "soon"}

\* new Date(date).getTime(), in hours; -1 stands for NaN.
ParseDate(text) ==
    CASE text = "1970-01-01T20:00" -> 20
      [] text = "1970-01-02T06:00" -> 30
      [] OTHER -> -1

\* setHours(0, 0, 0, 0) and setHours(23, 59, 59, 999) on a copy of the date.
StartOfDay(t) == t - (t % HoursPerDay)
EndOfDay(t) == StartOfDay(t) + (HoursPerDay - 1)

\* prisma.emotionTracker.findFirst({where: {userId, date: {gte, lte}}})
TrackersOn(d, u, t) ==
    {x \in d.emotionTrackers :
        x.userId = u /\ x.date >= StartOfDay(t) /\ x.date <= EndOfDay(t)}

TrackEmotionArrive(r) ==
    \E u \in UserIds, e \in EmotionInputs, t \in DateInputs :
        Arrive(r, "trackEmotion", u, e, t)

TrackEmotionLoad(r) ==
    /\ At(r, "trackEmotion", "start")
    /\ IF reqs[r].target = 0
       THEN Throw(r, ValidationError("Emotion ID is required"))
       ELSE IF reqs[r].target \notin db.emotions
       THEN Throw(r, NotFoundError("Emotion not found"))
       ELSE Goto(r, "findTracker")
    /\ UNCHANGED <<db, now, media>>

\* The date is parsed, or the clock read, and the day's tracker looked up:
\* val is the tracking date, loc the id of the tracker found (0: none).
TrackEmotionFind(r) ==
    /\ At(r, "trackEmotion", "findTracker")
    /\ LET date == IF reqs[r].text # "" THEN ParseDate(reqs[r].text) ELSE now
       IN IF date < 0
          THEN Throw(r, ValidationError("Invalid date format"))
          ELSE LET rows == TrackersOn(db, reqs[r].uid, date)
               IN reqs' = [reqs EXCEPT
                     ![r].pc = "write",
                     ![r].val = date,
                     ![r].loc = IF rows = {} THEN 0 ELSE (CHOOSE x \in rows : TRUE).id]
    /\ UNCHANGED <<db, now, media>>

TrackEmotionWrite(r) ==
    /\ At(r, "trackEmotion", "write")
    /\ LET t == IF reqs[r].loc # 0
                THEN TrackerUpdate(db, reqs[r].loc, reqs[r].target)
                ELSE TrackerCreate(db, reqs[r].uid, reqs[r].target, reqs[r].val)
       IN /\ db' = t.db
          /\ IF t.err # "" THEN Throw(r, PrismaError(t.err))
             ELSE Respond(r, 201, "Emotion tracked successfully")
    /\ UNCHANGED <<now, media>>

trackEmotion(r) ==
    \/ TrackEmotionLoad(r)
    \/ TrackEmotionFind(r)
    \/ TrackEmotionWrite(r)

---------------------------------------------------------------------------
(* Tags of a diary entry *)

MAX_TAGS == 5

RECURSIVE TrimStart(_)
TrimStart(s) == IF s # <<>> /\ Head(s) = " " THEN TrimStart(Tail(s)) ELSE s

RECURSIVE TrimEnd(_)
TrimEnd(s) ==
    IF s # <<>> /\ s[Len(s)] = " " THEN TrimEnd(SubSeq(s, 1, Len(s) - 1)) ELSE s

\* String.prototype.trim
Trim(s) == TrimEnd(TrimStart(s))

LowerCase(c) ==
    CASE c = "A" -> "a"
      [] c = "C" -> "c"
      [] c = "E" -> "e"
      [] OTHER -> c

\* String.prototype.toLowerCase
ToLowerCase(s) == [i \in DOMAIN s |-> LowerCase(s[i])]

\* String.prototype.split
RECURSIVE Split(_, _)
Split(s, sep) ==
    IF \E i \in 1..Len(s) : s[i] = sep
    THEN LET i == CHOOSE k \in 1..Len(s) :
                      s[k] = sep /\ \A j \in 1..(k - 1) : s[j] # sep
         IN <<SubSeq(s, 1, i - 1)>> \o Split(SubSeq(s, i + 1, Len(s)), sep)
    ELSE <<s>>

\* .map(tag => tag.trim().toLowerCase()).filter(tag => tag)
NormalizeTags(items) ==
    SelectSeq([i \in DOMAIN items |-> ToLowerCase(Trim(items[i]))],
              LAMBDA t : t # <<>>)

\* tagNames
ParseTags(tags) ==
    CASE tags.kind = "string" -> NormalizeTags(Split(tags.chars, ","))
      [] tags.kind = "array" -> NormalizeTags(tags.items)
      [] OTHER -> <<>>

\* Faulty variant: the limit is tested one too high.
TooManyTagsOffByOne(tagNames) == Len(tagNames) > MAX_TAGS + 1

\* tagNames.length > MAX_TAGS
TooManyTags(tagNames) == Len(tagNames) > MAX_TAGS

\* !title || title.trim() === ""
Missing(v) == v.kind # "string" \/ Trim(v.chars) = <<>>

\* title !== undefined && title.trim() === ""
Blank(v) == v.kind = "string" /\ Trim(v.chars) = <<>>

\* The tag lists requests carry: none; a string naming a, b, c; an array naming
\* d, e, f; an array naming a twice; a string naming six tags; the empty string.
TagInputs ==
    {Undefined,
     Str(<<" ", "A", ",", "b", " ", ",", ",", "c">>),
     Arr(<<<<"d">>, <<"E", " ">>, <<"f">>>>),
     Arr(<<<<"a">>, <<"a">>>>),
     Str(<<"a", ",", "b", ",", "c", ",", "d", ",", "e", ",", "f">>),
     Str(<<>>)}

\* The find-or-create loop over tagNames, shared by the two handlers: names is
\* tagNames, idx the position of the loop, loc the entry and val the tag.
TagLoopFind(r, op) ==
    /\ At(r, op, "findTag")
    /\ LET rows == TagRows(db, reqs[r].names[reqs[r].idx], reqs[r].uid)
       IN IF rows = {}
          THEN reqs' = [reqs EXCEPT ![r].pc = "createTag", ![r].val = 0]
          ELSE \E t \in rows :
                  reqs' = [reqs EXCEPT ![r].pc = "linkTag", ![r].val = t.id]
    /\ UNCHANGED <<db, now, media>>

TagLoopCreate(r, op) ==
    /\ At(r, op, "createTag")
    /\ LET t == TagCreate(db, reqs[r].names[reqs[r].idx], reqs[r].uid)
       IN /\ db' = t.db
          /\ IF t.err # "" THEN Throw(r, PrismaError(t.err))
             ELSE reqs' = [reqs EXCEPT ![r].pc = "linkTag", ![r].val = db.seq.tags]
    /\ UNCHANGED <<now, media>>

TagLoopLink(r, op) ==
    /\ At(r, op, "linkTag")
    /\ LET t == EntryTagCreate(db, reqs[r].loc, reqs[r].val)
       IN /\ db' = t.db
          /\ IF t.err # "" THEN Throw(r, PrismaError(t.err))
             ELSE reqs' = [reqs EXCEPT
                     ![r].idx = @ + 1,
                     ![r].pc = IF reqs[r].idx < Len(reqs[r].names)
                               THEN "findTag" ELSE "fetch"]
    /\ UNCHANGED <<now, media>>

TagLoop(r, op) ==
    \/ TagLoopFind(r, op)
    \/ TagLoopCreate(r, op)
    \/ TagLoopLink(r, op)

---------------------------------------------------------------------------
(* POST /api/diary-entries *)

Title == Str(<<"T">>)
Content == Str(<<"C">>)

\* The bodies requests carry: a full one for the diary of either user with each
\* tag list, and with tags a, b, c: a title of one space, no content, no diary
\* id, a diary id that is no number, a diary id that is no diary's.
CreateBodies ==
    {Body(Title, Content, d, t) : d \in UserIds, t \in TagInputs}
    \cup {Body(Str(<<" ">>), Content, 1, Str(<<"a", ",", "b", ",", "c">>)),
          Body(Title, Undefined, 1, Str(<<"a", ",", "b", ",", "c">>)),
          Body(Title, Content, 0, Str(<<"a", ",", "b", ",", "c">>)),
          Body(Title, Content, -1, Str(<<"a", ",", "b", ",", "c">>)),
          Body(Title, Content, NumUsers + 1, Str(<<"a", ",", "b", ",", "c">>))}

\* A cover image comes with the bodies that have no tags.
CreateEntryArrive(r) ==
    \E u \in UserIds, b \in CreateBodies, file \in BOOLEAN :
        /\ file => b.tags = Undefined
        /\ ArriveWithFile(r, "createDiaryEntry", u, b, file)

CreateEntryLoadDiary(r) ==
    /\ At(r, "createDiaryEntry", "start")
    /\ LET b == reqs[r].body
           tagNames == ParseTags(b.tags)
       IN IF Missing(b.title)
          THEN Throw(r, ValidationError("Entry title is required"))
          ELSE IF Missing(b.content)
          THEN Throw(r, ValidationError("Entry content is required"))
          ELSE IF b.diaryId = 0
          THEN Throw(r, ValidationError("Diary ID is required"))
          ELSE IF b.diaryId < 0
          THEN Throw(r, ValidationError("Invalid diary ID"))
          ELSE IF b.diaryId \notin DOMAIN db.diaries
          THEN Throw(r, NotFoundError("Diary not found"))
          ELSE IF db.diaries[b.diaryId].userId # reqs[r].uid
          THEN Throw(r, AuthorizationError(
                   "You don't have permission to add entries to this diary"))
          ELSE IF TooManyTags(tagNames)
          THEN Throw(r, MaxTagsError("Maximum 5 tags allowed per entry"))
          ELSE reqs' = [reqs EXCEPT
                  ![r].pc = IF reqs[r].file THEN "upload" ELSE "createEntry",
                  ![r].names = tagNames]
    /\ UNCHANGED <<db, now, media>>

\* if (file) { uploadResult = await uploadImage(file, "diary-entries") }
CreateEntryUpload(r) ==
    /\ At(r, "createDiaryEntry", "upload")
    /\ \E result \in uploadImage(r, "diary-entries") :
          reqs' = [reqs EXCEPT ![r].upload = result, ![r].pc = "createEntry"]
    /\ UNCHANGED <<db, now, media>>

\* coverImageUrl is the uploaded file's url if the upload succeeded, else null.
CreateEntryCreate(r) ==
    /\ At(r, "createDiaryEntry", "createEntry")
    /\ LET coverImageUrl == IF reqs[r].upload.success /\ reqs[r].upload.url # <<>>
                            THEN reqs[r].upload.url ELSE <<>>
           t == EntryCreate(db, reqs[r].uid, reqs[r].body.diaryId, coverImageUrl)
       IN /\ db' = t.db
          /\ IF t.err # "" THEN Throw(r, PrismaError(t.err))
             ELSE reqs' = [reqs EXCEPT
                     ![r].loc = db.seq.diaryEntries,
                     ![r].idx = 1,
                     ![r].pc = IF Len(reqs[r].names) > 0 THEN "findTag" ELSE "fetch"]
    /\ UNCHANGED <<now, media>>

\* completeEntry?.tags: an entry that is gone is answered all the same.
CreateEntryFetch(r) ==
    /\ At(r, "createDiaryEntry", "fetch")
    /\ Respond(r, 201, "")
    /\ UNCHANGED <<db, now, media>>

createDiaryEntry(r) ==
    \/ CreateEntryLoadDiary(r)
    \/ CreateEntryUpload(r)
    \/ CreateEntryCreate(r)
    \/ TagLoop(r, "createDiaryEntry")
    \/ CreateEntryFetch(r)

---------------------------------------------------------------------------
(* PUT /api/diary-entries/:id *)

\* The entry ids requests name: the first entry and the next one created.
EntryInputs == 1..2

\* The bodies requests carry: each tag list with no other field, and with tags
\* a, b, c: a title of one space, a content of one space.
UpdateBodies ==
    {Body(Undefined, Undefined, 0, t) : t \in TagInputs}
    \cup {Body(Str(<<" ">>), Undefined, 0, Str(<<"a", ",", "b", ",", "c">>)),
          Body(Undefined, Str(<<" ">>), 0, Str(<<"a", ",", "b", ",", "c">>))}

UpdateEntryArrive(r) ==
    \E u \in UserIds, e \in EntryInputs, b \in UpdateBodies :
        ArriveWithBody(r, "updateDiaryEntry", u, e, b)

UpdateEntryLoad(r) ==
    /\ At(r, "updateDiaryEntry", "start")
    /\ LET b == reqs[r].body
           e == reqs[r].target
           tagNames == ParseTags(b.tags)
       IN IF e \notin DOMAIN db.diaryEntries
          THEN Throw(r, NotFoundError("Diary entry not found"))
          ELSE IF db.diaryEntries[e].userId # reqs[r].uid
          THEN Throw(r, AuthorizationError(
                   "You don't have permission to update this entry"))
          ELSE IF Blank(b.title)
          THEN Throw(r, ValidationError("Entry title cannot be empty"))
          ELSE IF Blank(b.content)
          THEN Throw(r, ValidationError("Entry content cannot be empty"))
          ELSE IF TooManyTags(tagNames)
          THEN Throw(r, MaxTagsError("Maximum 5 tags allowed per entry"))
          ELSE reqs' = [reqs EXCEPT ![r].pc = "updateEntry", ![r].names = tagNames,
                                    ![r].loc = e]
    /\ UNCHANGED <<db, now, media>>

UpdateEntryUpdate(r) ==
    /\ At(r, "updateDiaryEntry", "updateEntry")
    /\ LET t == EntryUpdate(db, reqs[r].loc)
       IN /\ db' = t.db
          /\ IF t.err # "" THEN Throw(r, PrismaError(t.err))
             ELSE Goto(r, IF reqs[r].body.tags.kind # "undefined"
                          THEN "deleteLinks" ELSE "fetch")
    /\ UNCHANGED <<now, media>>

\* Faulty variant: the entry's existing tag links are kept.
UpdateEntryKeepLinks(r) ==
    /\ At(r, "updateDiaryEntry", "deleteLinks")
    /\ db' = db
    /\ reqs' = [reqs EXCEPT
          ![r].idx = 1,
          ![r].pc = IF Len(reqs[r].names) > 0 THEN "findTag" ELSE "fetch"]
    /\ UNCHANGED <<now, media>>

UpdateEntryDeleteLinks(r) ==
    /\ At(r, "updateDiaryEntry", "deleteLinks")
    /\ db' = EntryTagDeleteMany(db, reqs[r].loc).db
    /\ reqs' = [reqs EXCEPT
          ![r].idx = 1,
          ![r].pc = IF Len(reqs[r].names) > 0 THEN "findTag" ELSE "fetch"]
    /\ UNCHANGED <<now, media>>

UpdateEntryFetch(r) ==
    /\ At(r, "updateDiaryEntry", "fetch")
    /\ Respond(r, 200, "Diary entry updated successfully")
    /\ UNCHANGED <<db, now, media>>

updateDiaryEntry(r) ==
    \/ UpdateEntryLoad(r)
    \/ UpdateEntryUpdate(r)
    \/ UpdateEntryDeleteLinks(r)
    \/ TagLoop(r, "updateDiaryEntry")
    \/ UpdateEntryFetch(r)

---------------------------------------------------------------------------
(* Diaries: GET, PUT and DELETE /api/diaries/:id,
   GET /api/diary-entries/diary/:diaryId *)

\* The diary ids requests name: one that is no number (-1), the users'
\* diaries, and one that is no diary's.
DiaryIdInputs == {-1} \cup (1..(NumUsers + 1))

\* req.body of updateDiary.
DiaryBody(name, isPublic) == [name |-> name, isPublic |-> isPublic]

\* The bodies updateDiary requests carry: isPublic set or cleared, a name of
\* one space, a new name.
DiaryBodies ==
    {DiaryBody(Undefined, "true"), DiaryBody(Undefined, "false"),
     DiaryBody(Str(<<" ">>), "true"), DiaryBody(Str(<<"N">>), "undefined")}

\* Faulty variant: only the owner is let through, public or not.
ViewDeniedToAllOthers(diary, userId) == diary.userId # userId

\* !diary.isPublic && diary.userId !== userId
ViewDenied(diary, userId) == ~diary.isPublic /\ diary.userId # userId

GetDiaryArrive(r) ==
    \E u \in UserIds, d \in DiaryIdInputs : Arrive(r, "getDiaryById", u, d, "")

getDiaryById(r) ==
    /\ At(r, "getDiaryById", "start")
    /\ LET d == reqs[r].target
       IN IF d < 0
          THEN Throw(r, ValidationError("Invalid diary ID"))
          ELSE IF d \notin DOMAIN db.diaries
          THEN Throw(r, NotFoundError("Diary not found"))
          ELSE IF ViewDenied(db.diaries[d], reqs[r].uid)
          THEN Throw(r, AuthorizationError(
                   "You don't have permission to view this diary"))
          ELSE Respond(r, 200, "")
    /\ UNCHANGED <<db, now, media>>

GetEntriesArrive(r) ==
    \E u \in UserIds, d \in DiaryIdInputs : Arrive(r, "getDiaryEntries", u, d, "")

GetEntriesLoadDiary(r) ==
    /\ At(r, "getDiaryEntries", "start")
    /\ LET d == reqs[r].target
       IN IF d < 0
          THEN Throw(r, ValidationError("Invalid diary ID"))
          ELSE IF d \notin DOMAIN db.diaries
          THEN Throw(r, NotFoundError("Diary not found"))
          ELSE IF ViewDenied(db.diaries[d], reqs[r].uid)
          THEN Throw(r, AuthorizationError(
                   "You don't have permission to view these entries"))
          ELSE Goto(r, "findMany")
    /\ UNCHANGED <<db, now, media>>

\* The requests carry no page and no limit: the first 20 entries are read,
\* which are all of them; val is their number.
GetEntriesFindMany(r) ==
    /\ At(r, "getDiaryEntries", "findMany")
    /\ reqs' = [reqs EXCEPT ![r].pc = "count",
                            ![r].val = Cardinality(EntriesOf(db, reqs[r].target))]
    /\ UNCHANGED <<db, now, media>>

GetEntriesCount(r) ==
    /\ At(r, "getDiaryEntries", "count")
    /\ Respond(r, 200, "")
    /\ UNCHANGED <<db, now, media>>

getDiaryEntries(r) ==
    \/ GetEntriesLoadDiary(r)
    \/ GetEntriesFindMany(r)
    \/ GetEntriesCount(r)

UpdateDiaryArrive(r) ==
    \E u \in UserIds, d \in DiaryIdInputs, b \in DiaryBodies :
        ArriveWithBody(r, "updateDiary", u, d, b)

UpdateDiaryLoad(r) ==
    /\ At(r, "updateDiary", "start")
    /\ LET d == reqs[r].target
       IN IF d < 0
          THEN Throw(r, ValidationError("Invalid diary ID"))
          ELSE IF d \notin DOMAIN db.diaries
          THEN Throw(r, NotFoundError("Diary not found"))
          ELSE IF db.diaries[d].userId # reqs[r].uid
          THEN Throw(r, AuthorizationError(
                   "You don't have permission to update this diary"))
          ELSE IF Blank(reqs[r].body.name)
          THEN Throw(r, ValidationError("Diary name cannot be empty"))
          ELSE Goto(r, "update")
    /\ UNCHANGED <<db, now, media>>

UpdateDiaryUpdate(r) ==
    /\ At(r, "updateDiary", "update")
    /\ LET t == DiaryUpdate(db, reqs[r].target, reqs[r].body.isPublic)
       IN /\ db' = t.db
          /\ IF t.err # "" THEN Throw(r, PrismaError(t.err))
             ELSE Respond(r, 200, "Diary updated successfully")
    /\ UNCHANGED <<now, media>>

updateDiary(r) ==
    \/ UpdateDiaryLoad(r)
    \/ UpdateDiaryUpdate(r)

DeleteDiaryArrive(r) ==
    \E u \in UserIds, d \in DiaryIdInputs : Arrive(r, "deleteDiary", u, d, "")

DeleteDiaryLoad(r) ==
    /\ At(r, "deleteDiary", "start")
    /\ LET d == reqs[r].target
       IN IF d < 0
          THEN Throw(r, ValidationError("Invalid diary ID"))
          ELSE IF d \notin DOMAIN db.diaries
          THEN Throw(r, NotFoundError("Diary not found"))
          ELSE IF db.diaries[d].userId # reqs[r].uid
          THEN Throw(r, AuthorizationError(
                   "You don't have permission to delete this diary"))
          ELSE Goto(r, "delete")
    /\ UNCHANGED <<db, now, media>>

DeleteDiaryDelete(r) ==
    /\ At(r, "deleteDiary", "delete")
    /\ LET t == DiaryDelete(db, reqs[r].target)
       IN /\ db' = t.db
          /\ IF t.err # "" THEN Throw(r, PrismaError(t.err))
             ELSE Respond(r, 200, "Diary deleted successfully")
    /\ UNCHANGED <<now, media>>

deleteDiary(r) ==
    \/ DeleteDiaryLoad(r)
    \/ DeleteDiaryDelete(r)

---------------------------------------------------------------------------
(* DELETE /api/jots/:id *)

\* The jot ids requests name: the jots and one that is no jot's.
JotIdInputs == 1..(NumJots + 1)

DeleteJotArrive(r) ==
    \E u \in UserIds, j \in JotIdInputs : Arrive(r, "deleteJot", u, j, "")

\* Faulty variant: the jot's owner is not compared with the caller.
DeleteJotLoadAnyone(r) ==
    /\ At(r, "deleteJot", "start")
    /\ IF ~JotExists(db, reqs[r].target)
       THEN Throw(r, NotFoundError("Jot not found"))
       ELSE GotoDelete(r, db.jots[reqs[r].target].mediaPublicId)
    /\ UNCHANGED <<db, now, media>>

DeleteJotLoad(r) ==
    /\ At(r, "deleteJot", "start")
    /\ IF ~JotExists(db, reqs[r].target)
       THEN Throw(r, NotFoundError("Jot not found"))
       ELSE IF db.jots[reqs[r].target].userId # reqs[r].uid
       THEN Throw(r, AuthorizationError("You can only delete your own jots"))
       ELSE GotoDelete(r, db.jots[reqs[r].target].mediaPublicId)
    /\ UNCHANGED <<db, now, media>>

DeleteJotImage(r) ==
    /\ At(r, "deleteJot", "deleteImage")
    /\ deleteImage(reqs[r].image)
    /\ Goto(r, "delete")
    /\ UNCHANGED <<db, now>>

DeleteJotDelete(r) ==
    /\ At(r, "deleteJot", "delete")
    /\ LET t == JotDelete(db, reqs[r].target)
       IN /\ db' = t.db
          /\ IF t.err # "" THEN Throw(r, PrismaError(t.err))
             ELSE Respond(r, 200, "Jot deleted successfully")
    /\ UNCHANGED <<now, media>>

deleteJot(r) ==
    \/ DeleteJotLoad(r)
    \/ DeleteJotImage(r)
    \/ DeleteJotDelete(r)

---------------------------------------------------------------------------
(* GET /api/stories/:id/views, DELETE /api/stories/:id *)

\* The story ids requests name: one that is no number (-1), the stories and
\* one that is no story's.
StoryIdInputs == {-1} \cup (1..(NumStories + 1))

GetStoryViewsArrive(r) ==
    \E u \in UserIds, s \in StoryIdInputs : Arrive(r, "getStoryViews", u, s, "")

GetStoryViewsLoad(r) ==
    /\ At(r, "getStoryViews", "start")
    /\ LET s == reqs[r].target
       IN IF s < 0
          THEN Throw(r, ValidationError("Invalid story ID"))
          ELSE IF ~StoryExists(db, s)
          THEN Throw(r, NotFoundError("Story not found"))
          ELSE IF db.stories[s].userId # reqs[r].uid
          THEN Throw(r, AuthorizationError(
                   "You can only view your own story's viewers"))
          ELSE Goto(r, "findMany")
    /\ UNCHANGED <<db, now, media>>

\* val is the number of views read.
GetStoryViewsFindMany(r) ==
    /\ At(r, "getStoryViews", "findMany")
    /\ reqs' = [reqs EXCEPT
          ![r].pc = "done",
          ![r].res = Success(200, ""),
          ![r].val = Cardinality({x \in db.storyViews : x.storyId = reqs[r].target})]
    /\ UNCHANGED <<db, now, media>>

getStoryViews(r) ==
    \/ GetStoryViewsLoad(r)
    \/ GetStoryViewsFindMany(r)

DeleteStoryArrive(r) ==
    \E u \in UserIds, s \in StoryIdInputs : Arrive(r, "deleteStory", u, s, "")

DeleteStoryLoad(r) ==
    /\ At(r, "deleteStory", "start")
    /\ LET s == reqs[r].target
       IN IF s < 0
          THEN Throw(r, ValidationError("Invalid story ID"))
          ELSE IF ~StoryExists(db, s)
          THEN Throw(r, NotFoundError("Story not found"))
          ELSE IF db.stories[s].userId # reqs[r].uid
          THEN Throw(r, AuthorizationError("You can only delete your own stories"))
          ELSE GotoDelete(r, db.stories[s].mediaUrl)
    /\ UNCHANGED <<db, now, media>>

DeleteStoryImage(r) ==
    /\ At(r, "deleteStory", "deleteImage")
    /\ deleteImage(reqs[r].image)
    /\ Goto(r, "delete")
    /\ UNCHANGED <<db, now>>

DeleteStoryDelete(r) ==
    /\ At(r, "deleteStory", "delete")
    /\ LET t == StoryDelete(db, reqs[r].target)
       IN /\ db' = t.db
          /\ IF t.err # "" THEN Throw(r, PrismaError(t.err))
             ELSE Respond(r, 200, "Story deleted successfully")
    /\ UNCHANGED <<now, media>>

deleteStory(r) ==
    \/ DeleteStoryLoad(r)
    \/ DeleteStoryImage(r)
    \/ DeleteStoryDelete(r)

---------------------------------------------------------------------------
(* DELETE /api/diary-entries/:id *)

DeleteEntryArrive(r) ==
    \E u \in UserIds, e \in EntryInputs : Arrive(r, "deleteDiaryEntry", u, e, "")

DeleteEntryLoad(r) ==
    /\ At(r, "deleteDiaryEntry", "start")
    /\ LET e == reqs[r].target
       IN IF e \notin DOMAIN db.diaryEntries
          THEN Throw(r, NotFoundError("Diary entry not found"))
          ELSE IF db.diaryEntries[e].userId # reqs[r].uid
          THEN Throw(r, AuthorizationError(
                   "You don't have permission to delete this entry"))
          ELSE GotoDelete(r, db.diaryEntries[e].coverImage)
    /\ UNCHANGED <<db, now, media>>

DeleteEntryImage(r) ==
    /\ At(r, "deleteDiaryEntry", "deleteImage")
    /\ deleteImage(reqs[r].image)
    /\ Goto(r, "delete")
    /\ UNCHANGED <<db, now>>

DeleteEntryDelete(r) ==
    /\ At(r, "deleteDiaryEntry", "delete")
    /\ LET t == EntryDelete(db, reqs[r].target)
       IN /\ db' = t.db
          /\ IF t.err # "" THEN Throw(r, PrismaError(t.err))
             ELSE Respond(r, 200, "Diary entry deleted successfully")
    /\ UNCHANGED <<now, media>>

deleteDiaryEntry(r) ==
    \/ DeleteEntryLoad(r)
    \/ DeleteEntryImage(r)
    \/ DeleteEntryDelete(r)

---------------------------------------------------------------------------
(* POST /api/auth/register *)

\* jwt.sign(..., {expiresIn: "30d"}), in hours.
TokenLifetime == 720

MinPasswordLength == 6

\* req.body of register.
RegisterBody(firstName, lastName, email, password) ==
    [firstName |-> firstName, lastName |-> lastName, email |-> email,
     password |-> password]

\* !firstName, !email, ...: the field is absent or the empty string.
Falsy(v) == v.kind # "string" \/ v.chars = <<>>

\* EMAIL_REGEX: one "@" with something before it, no space, and after the "@"
\* a "." with something on either side.
isValidEmail(email) ==
    \E k \in 2..Len(email) :
        /\ email[k] = "@"
        /\ \A i \in 1..Len(email) : i # k => email[i] \notin {"@", " "}
        /\ \E p \in (k + 2)..(Len(email) - 1) : email[p] = "."

isValidPassword(password) == Len(password) >= MinPasswordLength

\* Faulty variant: the email is looked up and stored as it was typed.
EmailAsTyped(email) == email

\* email.toLowerCase()
NormalizeEmail(email) == ToLowerCase(email)

\* The bodies requests carry: a full one with the first user's email in
\* capitals, with a new email, with the new email in capitals; one without
\* first name, one whose email has no dot, one whose password is too short.
RegisterBodies ==
    LET name == Str(<<"N">>)
        pass == Str(<<"1", "2", "3", "4", "5", "6">>)
    IN {RegisterBody(name, name, Str(e), pass) :
            e \in {<<"A", "@", "x", ".", "y">>, <<"c", "@", "x", ".", "y">>,
                   <<"C", "@", "x", ".", "y">>}}
       \cup {RegisterBody(Undefined, name, Str(<<"c", "@", "x", ".", "y">>), pass),
             RegisterBody(name, name, Str(<<"A", "@", "x">>), pass),
             RegisterBody(name, name, Str(<<"A", "@", "x", ".", "y">>),
                          Str(<<"1", "2", "3", "4", "5">>))}

\* The catch of register: its own answers, not errorHandler's.
RegisterCatch(err) ==
    IF err.cls \in {"ValidationError", "ConflictError"}
    THEN [status |-> err.statusCode, thrown |-> err.cls, message |-> err.message]
    ELSE [status |-> 500, thrown |-> err.cls,
          message |-> "Registration failed. Please try again."]

RegisterThrow(r, err) ==
    reqs' = [reqs EXCEPT ![r].pc = "done", ![r].res = RegisterCatch(err)]

RegisterArrive(r) ==
    \E b \in RegisterBodies, file \in BOOLEAN : ArriveWithFile(r, "register", 0, b, file)

RegisterCheck(r) ==
    /\ At(r, "register", "start")
    /\ LET b == reqs[r].body
       IN IF Falsy(b.firstName) \/ Falsy(b.lastName) \/ Falsy(b.email)
             \/ Falsy(b.password)
          THEN RegisterThrow(r, ValidationError(
                   "Please provide all required fields: firstName, lastName, email, password"))
          ELSE IF ~isValidEmail(b.email.chars)
          THEN RegisterThrow(r, ValidationError("Invalid email format"))
          ELSE IF ~isValidPassword(b.password.chars)
          THEN RegisterThrow(r, ValidationError(
                   "Password must be at least 6 characters long"))
          ELSE IF UsersByEmail(db, NormalizeEmail(b.email.chars)) # {}
          THEN RegisterThrow(r, ConflictError("User with this email already exists"))
          ELSE Goto(r, "hash")
    /\ UNCHANGED <<db, now, media>>

\* await bcrypt.hash(password, 10)
RegisterHash(r) ==
    /\ At(r, "register", "hash")
    /\ Goto(r, IF reqs[r].file THEN "upload" ELSE "create")
    /\ UNCHANGED <<db, now, media>>

\* if (profilePicture) { uploadResult = await uploadImage(..., "user_profiles") }
RegisterUpload(r) ==
    /\ At(r, "register", "upload")
    /\ \E result \in uploadImage(r, "user_profiles") :
          IF ~result.success
          THEN reqs' = [reqs EXCEPT ![r].upload = result, ![r].pc = "done",
                          ![r].res = RegisterCatch(ValidationError("Failed to upload image"))]
          ELSE reqs' = [reqs EXCEPT ![r].upload = result, ![r].pc = "create"]
    /\ UNCHANGED <<db, now, media>>

\* prisma.user.create and the token for the new user.
RegisterCreate(r) ==
    /\ At(r, "register", "create")
    /\ LET b == reqs[r].body
           t == UserCreate(db, NormalizeEmail(b.email.chars), b.password.chars,
                           reqs[r].upload.url)
       IN /\ db' = t.db
          /\ IF t.err # "" THEN RegisterThrow(r, PrismaError(t.err))
             ELSE reqs' = [reqs EXCEPT
                     ![r].pc = "done",
                     ![r].uid = db.seq.users,
                     ![r].token = Jwt(db.seq.users, now + TokenLifetime, TRUE),
                     ![r].res = Success(201, "User registered successfully")]
    /\ UNCHANGED <<now, media>>

register(r) ==
    \/ RegisterCheck(r)
    \/ RegisterHash(r)
    \/ RegisterUpload(r)
    \/ RegisterCreate(r)

---------------------------------------------------------------------------
(* POST /api/auth/login *)

\* req.body of login.
LoginBody(email, password) == [email |-> email, password |-> password]

\* The bodies requests carry: the first user's email as registered and in
\* capitals and an email register may add, each with the first user's
\* password, with the password register stores and with another; one without
\* email, one without password.
LoginBodies ==
    {LoginBody(Str(e), Str(p)) :
        e \in {EmailOf(1), <<"A", "@", "x", ".", "y">>, <<"c", "@", "x", ".", "y">>},
        p \in {InitialPassword, <<"1", "2", "3", "4", "5", "6">>, <<"s">>}}
    \cup {LoginBody(Undefined, Str(InitialPassword)), LoginBody(Str(EmailOf(1)), Str(<<>>))}

\* bcrypt.compare(password, hash)
Compare(password, hash) == hash = Hash(password)

\* The catch of login: its own answers, not errorHandler's.
LoginCatch(err) ==
    IF err.cls = "ValidationError"
    THEN [status |-> err.statusCode, thrown |-> err.cls, message |-> err.message]
    ELSE [status |-> 500, thrown |-> err.cls, message |-> "Login failed. Please try again."]

LoginThrow(r, err) ==
    reqs' = [reqs EXCEPT ![r].pc = "done", ![r].res = LoginCatch(err)]

LoginArrive(r) ==
    \E b \in LoginBodies : ArriveWithBody(r, "login", 0, 0, b)

\* Faulty variant: an unknown email is answered with its own error.
LoginFindRevealing(r) ==
    /\ At(r, "login", "start")
    /\ LET b == reqs[r].body
           found == IF Falsy(b.email) THEN {}
                    ELSE UsersByEmail(db, ToLowerCase(b.email.chars))
       IN IF Falsy(b.email) \/ Falsy(b.password)
          THEN LoginThrow(r, ValidationError("Please provide email and password"))
          ELSE IF found = {}
          THEN LoginThrow(r, ValidationError("No account with this email"))
          ELSE LET u == CHOOSE u \in found : TRUE
               IN reqs' = [reqs EXCEPT ![r].pc = "compare", ![r].loc = u,
                                       ![r].hash = db.users[u].password]
    /\ UNCHANGED <<db, now, media>>

\* The required fields and prisma.user.findUnique({where: {email:
\* email.toLowerCase()}}); the row read stays with the request.
LoginFind(r) ==
    /\ At(r, "login", "start")
    /\ LET b == reqs[r].body
           found == IF Falsy(b.email) THEN {}
                    ELSE UsersByEmail(db, ToLowerCase(b.email.chars))
       IN IF Falsy(b.email) \/ Falsy(b.password)
          THEN LoginThrow(r, ValidationError("Please provide email and password"))
          ELSE IF found = {}
          THEN LoginThrow(r, ValidationError("Invalid credentials"))
          ELSE LET u == CHOOSE u \in found : TRUE
               IN reqs' = [reqs EXCEPT ![r].pc = "compare", ![r].loc = u,
                                       ![r].hash = db.users[u].password]
    /\ UNCHANGED <<db, now, media>>

\* bcrypt.compare and the token for the user.
LoginCompare(r) ==
    /\ At(r, "login", "compare")
    /\ IF ~Compare(reqs[r].body.password.chars, reqs[r].hash)
       THEN LoginThrow(r, ValidationError("Invalid credentials"))
       ELSE reqs' = [reqs EXCEPT
               ![r].pc = "done",
               ![r].uid = reqs[r].loc,
               ![r].token = Jwt(reqs[r].loc, now + TokenLifetime, TRUE),
               ![r].res = Success(200, "Login successful")]
    /\ UNCHANGED <<db, now, media>>

login(r) ==
    \/ LoginFind(r)
    \/ LoginCompare(r)

---------------------------------------------------------------------------
(* DELETE /api/emotions/:id *)

\* The emotion ids requests name: one that is no number (-1) and those of
\* EmotionInputs.
EmotionIdInputs == {-1} \cup EmotionInputs

DeleteEmotionArrive(r) ==
    \E u \in UserIds, e \in EmotionIdInputs : Arrive(r, "deleteEmotion", u, e, "")

DeleteEmotionLoad(r) ==
    /\ At(r, "deleteEmotion", "start")
    /\ IF reqs[r].target < 0
       THEN Throw(r, ValidationError("Invalid emotion ID"))
       ELSE IF reqs[r].target \notin db.emotions
       THEN Throw(r, NotFoundError("Emotion not found"))
       ELSE Goto(r, "count")
    /\ UNCHANGED <<db, now, media>>

\* The check that the emotion is not in use.
DeleteEmotionCount(r) ==
    /\ At(r, "deleteEmotion", "count")
    /\ IF Cardinality(TrackersOf(db, reqs[r].target)) > 0
       THEN Throw(r, ConflictError("Cannot delete emotion. It is being used"))
       ELSE Goto(r, "delete")
    /\ UNCHANGED <<db, now, media>>

DeleteEmotionDelete(r) ==
    /\ At(r, "deleteEmotion", "delete")
    /\ LET t == EmotionDelete(db, reqs[r].target)
       IN /\ db' = t.db
          /\ IF t.err # "" THEN Throw(r, PrismaError(t.err))
             ELSE Respond(r, 200, "Emotion deleted successfully")
    /\ UNCHANGED <<now, media>>

deleteEmotion(r) ==
    \/ DeleteEmotionLoad(r)
    \/ DeleteEmotionCount(r)
    \/ DeleteEmotionDelete(r)

---------------------------------------------------------------------------
(* POST /api/jots *)

MaxJotLength == 1000

\* The contents requests carry: an empty one, a short one, and one of 1001
\* characters.
JotContentInputs == {"", "hello", "x1001"}

JotContentLength(text) ==
    CASE text = "" -> 0 [] text = "hello" -> 5 [] OTHER -> MaxJotLength + 1

CreateJotArrive(r) ==
    \E u \in UserIds, c \in JotContentInputs, file \in BOOLEAN :
        /\ CanStart(r)
        /\ reqs' = [reqs EXCEPT ![r] = [NewRequest("createJot", u, 0, c, Answered, 0)
                                          EXCEPT !.file = file]]
        /\ UNCHANGED <<db, now, media>>

CreateJotCheck(r) ==
    /\ At(r, "createJot", "start")
    /\ IF JotContentLength(reqs[r].text) = 0
       THEN Throw(r, ValidationError("Content is required"))
       ELSE IF JotContentLength(reqs[r].text) > MaxJotLength
       THEN Throw(r, ValidationError("Content must be less than 1000 characters"))
       ELSE Goto(r, IF reqs[r].file THEN "upload" ELSE "create")
    /\ UNCHANGED <<db, now, media>>

\* if (media) { uploadResult = await uploadImage(..., "jots", ...) }
CreateJotUpload(r) ==
    /\ At(r, "createJot", "upload")
    /\ \E result \in uploadImage(r, "jots") :
          IF ~result.success
          THEN reqs' = [reqs EXCEPT ![r].upload = result, ![r].pc = "done",
                          ![r].res = errorHandler(ValidationError("Failed to upload image"))]
          ELSE reqs' = [reqs EXCEPT ![r].upload = result, ![r].pc = "create"]
    /\ UNCHANGED <<db, now, media>>

CreateJotCreate(r) ==
    /\ At(r, "createJot", "create")
    /\ LET t == JotCreate(db, reqs[r].uid, reqs[r].upload.url)
       IN /\ db' = t.db
          /\ IF t.err # "" THEN Throw(r, PrismaError(t.err))
             ELSE Respond(r, 201, "")
    /\ UNCHANGED <<now, media>>

createJot(r) ==
    \/ CreateJotCheck(r)
    \/ CreateJotUpload(r)
    \/ CreateJotCreate(r)

---------------------------------------------------------------------------
(* POST /api/stories *)

CreateStoryArrive(r) ==
    \E u \in UserIds, file \in BOOLEAN : ArriveWithFile(r, "createStory", u, NoBody, file)

CreateStoryCheck(r) ==
    /\ At(r, "createStory", "start")
    /\ IF ~reqs[r].file
       THEN Throw(r, ValidationError("Media file is required for story"))
       ELSE Goto(r, "upload")
    /\ UNCHANGED <<db, now, media>>

\* A failed upload is thrown as a plain Error.
CreateStoryUpload(r) ==
    /\ At(r, "createStory", "upload")
    /\ \E result \in uploadImage(r, "stories") :
          IF ~result.success \/ result.url = <<>>
          THEN reqs' = [reqs EXCEPT ![r].upload = result, ![r].pc = "done",
                          ![r].res = errorHandler(PlainError("Failed to upload media to Cloudinary"))]
          ELSE reqs' = [reqs EXCEPT ![r].upload = result, ![r].pc = "create"]
    /\ UNCHANGED <<db, now, media>>

CreateStoryCreate(r) ==
    /\ At(r, "createStory", "create")
    /\ LET t == StoryCreate(db, reqs[r].uid, now, reqs[r].upload.url)
       IN /\ db' = t.db
          /\ IF t.err # "" THEN Throw(r, PrismaError(t.err))
             ELSE Respond(r, 201, "")
    /\ UNCHANGED <<now, media>>

createStory(r) ==
    \/ CreateStoryCheck(r)
    \/ CreateStoryUpload(r)
    \/ CreateStoryCreate(r)

---------------------------------------------------------------------------
(* PUT /api/users/me/profile-picture *)

UpdatePictureArrive(r) ==
    \E u \in UserIds, file \in BOOLEAN :
        ArriveWithFile(r, "updateProfilePicture", u, NoBody, file)

\* The user's row is read here; its profilePicturePublicId is the one removed
\* later.
UpdatePictureLoad(r) ==
    /\ At(r, "updateProfilePicture", "start")
    /\ IF ~reqs[r].file
       THEN Throw(r, ValidationError("No profile picture provided"))
       ELSE IF ~UserExists(db, reqs[r].uid)
       THEN Throw(r, NotFoundError("User not found"))
       ELSE reqs' = [reqs EXCEPT ![r].pc = "upload",
                                 ![r].image = db.users[reqs[r].uid].profilePicturePublicId]
    /\ UNCHANGED <<db, now, media>>

UpdatePictureUpload(r) ==
    /\ At(r, "updateProfilePicture", "upload")
    /\ \E result \in uploadImage(r, "user_profiles") :
          IF ~result.success
          THEN reqs' = [reqs EXCEPT ![r].upload = result, ![r].pc = "done",
                          ![r].res = errorHandler(ValidationError("Failed to upload image"))]
          ELSE reqs' = [reqs EXCEPT ![r].upload = result,
                          ![r].pc = IF reqs[r].image # <<>> THEN "deleteImage" ELSE "update"]
    /\ UNCHANGED <<db, now, media>>

UpdatePictureDeleteOld(r) ==
    /\ At(r, "updateProfilePicture", "deleteImage")
    /\ deleteImage(reqs[r].image)
    /\ Goto(r, "update")
    /\ UNCHANGED <<db, now>>

UpdatePictureUpdate(r) ==
    /\ At(r, "updateProfilePicture", "update")
    /\ LET t == UserSetPicture(db, reqs[r].uid, reqs[r].upload.url)
       IN /\ db' = t.db
          /\ IF t.err # "" THEN Throw(r, PrismaError(t.err))
             ELSE Respond(r, 200, "Profile picture updated successfully")
    /\ UNCHANGED <<now, media>>

updateProfilePicture(r) ==
    \/ UpdatePictureLoad(r)
    \/ UpdatePictureUpload(r)
    \/ UpdatePictureDeleteOld(r)
    \/ UpdatePictureUpdate(r)

---------------------------------------------------------------------------
(* parsePagination *)

\* A JavaScript number: NaN or an integer.
NaN == [nan |-> TRUE, val |-> 0]
Num(n) == [nan |-> FALSE, val |-> n]

MathMax(a, b) ==
    IF a.nan \/ b.nan THEN NaN ELSE Num(IF a.val >= b.val THEN a.val ELSE b.val)

MathMin(a, b) ==
    IF a.nan \/ b.nan THEN NaN ELSE Num(IF a.val <= b.val THEN a.val ELSE b.val)

Minus(a, b) == IF a.nan \/ b.nan THEN NaN ELSE Num(a.val - b.val)

Times(a, b) == IF a.nan \/ b.nan THEN NaN ELSE Num(a.val * b.val)

Digits == <<"0", "1", "2", "3", "4", "5", "6", "7", "8", "9">>

IsDigit(c) == \E k \in DOMAIN Digits : Digits[k] = c

DigitValue(c) == (CHOOSE k \in DOMAIN Digits : Digits[k] = c) - 1

\* String(n) for a number n >= 0.
RECURSIVE NumberToString(_)
NumberToString(n) ==
    IF n < 10 THEN <<Digits[n + 1]>>
    ELSE NumberToString(n \div 10) \o <<Digits[(n % 10) + 1]>>

\* The value of the longest prefix of s made of digits, after acc; that
\* prefix's length is not needed.
RECURSIVE DigitsValue(_, _)
DigitsValue(s, acc) ==
    IF s = <<>> \/ ~IsDigit(Head(s)) THEN acc
    ELSE DigitsValue(Tail(s), 10 * acc + DigitValue(Head(s)))

\* parseInt(s): leading white space is skipped, a sign is read, then decimal
\* digits up to the first character that is none; NaN if there is no digit.
parseInt(s) ==
    LET t == TrimStart(s)
        negative == t # <<>> /\ Head(t) = "-"
        signed == t # <<>> /\ Head(t) \in {"-", "+"}
        body == IF signed THEN Tail(t) ELSE t
    IN IF body = <<>> \/ ~IsDigit(Head(body)) THEN NaN
       ELSE Num(IF negative THEN 0 - DigitsValue(body, 0) ELSE DigitsValue(body, 0))

DefaultPage == 1
DefaultLimit == 20
MaxLimit == 100

\* String(v || n) for a query parameter v: the parameter if it is a non-empty
\* string, else the default written out.
StringOr(v, n) == IF Falsy(v) THEN NumberToString(n) ELSE v.chars

parsePagination(page, limit) ==
    LET parsedPage == parseInt(StringOr(page, DefaultPage))
        parsedLimit == parseInt(StringOr(limit, DefaultLimit))
    IN [page |-> MathMax(Num(1), parsedPage),
        limit |-> MathMin(Num(MaxLimit), MathMax(Num(1), parsedLimit)),
        offset |-> Times(Minus(MathMax(Num(1), parsedPage), Num(1)),
                         MathMin(Num(MaxLimit), MathMax(Num(1), parsedLimit)))]

\* req.query of a listing request.
Query(page, limit) == [page |-> page, limit |-> limit]

\* The page parameters requests carry: none, the empty string, 0, 3, -2, " 7",
\* "2x" and "ab".
PageInputs ==
    {Undefined, Str(<<>>), Str(<<"0">>), Str(<<"3">>), Str(<<"-", "2">>),
     Str(<<" ", "7">>), Str(<<"2", "x">>), Str(<<"a", "b">>)}

\* The limit parameters requests carry: none, 0, 5, 100, 101, -1, "+9" and "x".
LimitInputs ==
    {Undefined, Str(<<"0">>), Str(<<"5">>), Str(<<"1", "0", "0">>),
     Str(<<"1", "0", "1">>), Str(<<"-", "1">>), Str(<<"+", "9">>), Str(<<"x">>)}

\* A listing request arrives with its query.
PaginationArrive(r) ==
    \E p \in PageInputs, l \in LimitInputs :
        ArriveWithBody(r, "parsePagination", 0, 0, Query(p, l))

\* The handler's first statement: parsePagination(req.query.page, req.query.limit).
Paginate(r) ==
    /\ At(r, "parsePagination", "start")
    /\ reqs' = [reqs EXCEPT
           ![r].pc = "done",
           ![r].pagination = parsePagination(reqs[r].body.page, reqs[r].body.limit)]
    /\ UNCHANGED <<db, now, media>>

---------------------------------------------------------------------------
(* The boundary error handler *)

\* An error that is no AppError but whose name is "ValidationError".
NamedValidationError(message) ==
    [cls |-> "Error", name |-> "ValidationError", message |-> message,
     statusCode |-> 0, isApp |-> FALSE, isOperational |-> FALSE]

\* The errors a handler passes on: one of each class of AppError, store
\* errors, a TypeError, a plain Error and a foreign validation error.
ThrownErrors ==
    {ValidationError("v"), AuthenticationError("Authentication failed"),
     AuthorizationError("You do not have permission to perform this action"),
     NotFoundError("Resource not found"), ConflictError("Resource already exists"),
     MaxTagsError("A diary entry can have a maximum of 5 tags"),
     RateLimitError("Too many requests, please try again later"),
     PrismaError("P2002"), PrismaError("P2003"), PrismaError("P2025"),
     TypeError, PlainError("e"), NamedValidationError("n")}

FailingArrive(r) == Arrive(r, "failing", 0, 0, "")

\* asyncHandler: what the handler throws goes to errorHandler.
asyncHandler(r) ==
    /\ At(r, "failing", "start")
    /\ \E err \in ThrownErrors : Throw(r, err)
    /\ UNCHANGED <<db, now, media>>

\* An hour passes.
Tick ==
    /\ now < MaxTime
    /\ now' = now + 1
    /\ UNCHANGED <<db, reqs, media>>

---------------------------------------------------------------------------
(* Specifications *)

Init ==
    /\ db = InitDb
    /\ reqs = [r \in ReqIds |-> Idle]
    /\ now = 0
    /\ media = {}

NextFollow ==
    \E r \in ReqIds :
        \/ FollowArrive(r)
        \/ UnfollowArrive(r)
        \/ followUser(r)
        \/ unfollowUser(r)

SpecFollow == Init /\ [][NextFollow]_vars

\* Follow and unfollow requests together with account deletions.
NextUser ==
    \E r \in ReqIds :
        \/ FollowArrive(r)
        \/ UnfollowArrive(r)
        \/ DeleteUserArrive(r)
        \/ followUser(r)
        \/ unfollowUser(r)
        \/ deleteUser(r)

SpecUser == Init /\ [][NextUser]_vars

\* Reactions and comments on jots together with account deletions.
NextJot ==
    \E r \in ReqIds :
        \/ ToggleArrive(r)
        \/ AddCommentArrive(r)
        \/ DeleteCommentArrive(r)
        \/ DeleteUserArrive(r)
        \/ toggleReaction(r)
        \/ addComment(r)
        \/ deleteComment(r)
        \/ deleteUser(r)

SpecJot == Init /\ [][NextJot]_vars

\* Story views while the clock runs past the stories' expiry.
NextStory ==
    \/ Tick
    \/ \E r \in ReqIds :
        \/ ViewStoryArrive(r)
        \/ viewStory(r)

SpecStory == Init /\ [][NextStory]_vars

\* Emotion tracking.
NextEmotion ==
    \E r \in ReqIds :
        \/ TrackEmotionArrive(r)
        \/ trackEmotion(r)

SpecEmotion == Init /\ [][NextEmotion]_vars

\* Emotions tracked while the catalog is pruned.
NextEmotionCatalog ==
    \E r \in DiaryReqIds :
        \/ TrackEmotionArrive(r)
        \/ trackEmotion(r)
        \/ DeleteEmotionArrive(r)
        \/ deleteEmotion(r)

SpecEmotionCatalog == Init /\ [][NextEmotionCatalog]_vars

\* Diary entries and their tags.
NextDiary ==
    \E r \in DiaryReqIds :
        \/ CreateEntryArrive(r)
        \/ createDiaryEntry(r)
        \/ UpdateEntryArrive(r)
        \/ updateDiaryEntry(r)

SpecDiary == Init /\ [][NextDiary]_vars

\* Diaries read, changed and deleted.
NextDiaryAccess ==
    \E r \in DiaryReqIds :
        \/ GetDiaryArrive(r)
        \/ getDiaryById(r)
        \/ GetEntriesArrive(r)
        \/ getDiaryEntries(r)
        \/ UpdateDiaryArrive(r)
        \/ updateDiary(r)
        \/ DeleteDiaryArrive(r)
        \/ deleteDiary(r)

SpecDiaryAccess == Init /\ [][NextDiaryAccess]_vars

\* The handlers that change or read a row only for its owner, with addComment
\* to bring comments about.
NextOwnership ==
    \E r \in DiaryReqIds :
        \/ UpdateDiaryArrive(r)
        \/ updateDiary(r)
        \/ DeleteDiaryArrive(r)
        \/ deleteDiary(r)
        \/ UpdateEntryArrive(r)
        \/ updateDiaryEntry(r)
        \/ DeleteEntryArrive(r)
        \/ deleteDiaryEntry(r)
        \/ DeleteJotArrive(r)
        \/ deleteJot(r)
        \/ AddCommentArrive(r)
        \/ addComment(r)
        \/ DeleteCommentArrive(r)
        \/ deleteComment(r)
        \/ DeleteStoryArrive(r)
        \/ deleteStory(r)
        \/ GetStoryViewsArrive(r)
        \/ getStoryViews(r)

SpecOwnership == Init /\ [][NextOwnership]_vars

\* A protected route, GET /api/diaries/:id, behind authenticate while the
\* clock runs.
ProtectedArrive(r) ==
    \E d \in UserIds, h \in HeaderInputs :
        ArriveWithHeader(r, "getDiaryById", d, h)

NextAuth ==
    \/ Tick
    \/ \E r \in DiaryReqIds :
          \/ ProtectedArrive(r)
          \/ authenticate(r)
          \/ getDiaryById(r)

SpecAuth == Init /\ [][NextAuth]_vars

\* Registration.
NextRegister ==
    \E r \in ReqIds :
        \/ RegisterArrive(r)
        \/ register(r)

SpecRegister == Init /\ [][NextRegister]_vars

\* Every request that writes a denormalized counter or removes counted rows.
\* The inputs are those that reach the counters: a valid reaction type, a
\* valid comment, a jot that exists, a comment id an earlier request can have
\* produced.
NextCounters ==
    \E r \in ReqIds :
        \/ FollowArrive(r)
        \/ followUser(r)
        \/ UnfollowArrive(r)
        \/ unfollowUser(r)
        \/ ToggleArrive(r) /\ reqs'[r].text = "like"
        \/ toggleReaction(r)
        \/ AddCommentArrive(r) /\ reqs'[r].text = "nice"
        \/ addComment(r)
        \/ DeleteCommentArrive(r) /\ reqs'[r].target < MaxReqs
        \/ deleteComment(r)
        \/ DeleteJotArrive(r) /\ reqs'[r].target \in JotIds
        \/ deleteJot(r)
        \/ DeleteUserArrive(r)
        \/ deleteUser(r)

SpecCounters == Init /\ [][NextCounters]_vars

\* Handlers that fail, one error each.
NextErrors ==
    \E r \in ReqIds :
        \/ FailingArrive(r)
        \/ asyncHandler(r)

SpecErrors == Init /\ [][NextErrors]_vars

\* Listing requests with their page and limit parameters.
NextPagination ==
    \E r \in DiaryReqIds :
        \/ PaginationArrive(r)
        \/ Paginate(r)

SpecPagination == Init /\ [][NextPagination]_vars

\* Logins while users register.
NextLogin ==
    \E r \in ReqIds :
        \/ RegisterArrive(r)
        \/ register(r)
        \/ LoginArrive(r)
        \/ login(r)

SpecLogin == Init /\ [][NextLogin]_vars

\* The requests that carry a file for the media store.
NextMedia ==
    \E r \in DiaryReqIds :
        \/ RegisterArrive(r)
        \/ register(r)
        \/ UpdatePictureArrive(r)
        \/ updateProfilePicture(r)
        \/ CreateJotArrive(r)
        \/ createJot(r)
        \/ CreateStoryArrive(r)
        \/ createStory(r)
        \/ CreateEntryArrive(r)
        \/ createDiaryEntry(r)

SpecMedia == Init /\ [][NextMedia]_vars

---------------------------------------------------------------------------
(* Properties *)

Done(r, op) == reqs[r].op = op /\ reqs[r].pc = "done"

Succeeded(r, op) == Done(r, op) /\ reqs[r].res.thrown = ""

Followers(u) == {f \in db.follows : f.followingId = u}
Following(u) == {f \in db.follows : f.followerId = u}

FollowCountersExact(u) ==
    /\ db.users[u].followersCount = Cardinality(Followers(u))
    /\ db.users[u].followingCount = Cardinality(Following(u))

\* C1: under follow and unfollow requests interleaved in any way, every
\* user's followersCount is the number of Follow rows that name the user as
\* followingId and followingCount the number that name the user as followerId.
C1_FollowCountersMatchRows == \A u \in DOMAIN db.users : FollowCountersExact(u)

\* C1 witness: two follows of one pair raced, the store turned one down, and
\* the pair is counted once on both sides.
C1_Witness ==
    \E r1, r2 \in ReqIds :
        /\ Succeeded(r1, "followUser")
        /\ Done(r2, "followUser")
        /\ reqs[r2].res.thrown = "PrismaClientKnownRequestError"
        /\ reqs[r1].uid = reqs[r2].uid /\ reqs[r1].target = reqs[r2].target
        /\ db.users[reqs[r1].uid].followingCount = 1
        /\ db.users[reqs[r1].target].followersCount = 1

\* C2: once deleteUser has removed a user, and with the user every Follow
\* row that references the user, the counters of every remaining user still
\* equal the numbers of Follow rows that reference that user.
C2_CountersMatchAfterDelete ==
    (\E r \in ReqIds : Succeeded(r, "deleteUser"))
        => \A u \in DOMAIN db.users : FollowCountersExact(u)

JotReactions(j) == {x \in db.jotReactions : x.jotId = j}
JotComments(j) == {x \in db.jotComments : x.jotId = j}

\* C3: under toggleReaction, addComment, deleteComment and deleteUser requests
\* interleaved in any way, every jot's reactionsCount is the number of its
\* JotReaction rows and its commentsCount the number of its JotComment rows.
C3_JotCountersMatchRows ==
    \A j \in DOMAIN db.jots :
        /\ db.jots[j].reactionsCount = Cardinality(JotReactions(j))
        /\ db.jots[j].commentsCount = Cardinality(JotComments(j))

AddedReaction(r, j) ==
    /\ Succeeded(r, "toggleReaction")
    /\ reqs[r].target = j
    /\ reqs[r].res.message = "Reaction added"

AddedComment(r, j) == Succeeded(r, "addComment") /\ reqs[r].target = j

\* C8: when every request made so far is an add-reaction or add-comment on
\* one jot and all of them have been answered with success, whatever their
\* interleaving, the jot's reactionsCount and commentsCount have grown from 0
\* by exactly the numbers of those requests.
C8_NoLostUpdate ==
    \A j \in DOMAIN db.jots :
        (\A r \in ReqIds : reqs[r].op = "idle" \/ AddedReaction(r, j) \/ AddedComment(r, j))
        => /\ db.jots[j].reactionsCount = Cardinality({r \in ReqIds : AddedReaction(r, j)})
           /\ db.jots[j].commentsCount = Cardinality({r \in ReqIds : AddedComment(r, j)})

\* Some request had not been answered when r arrived: r ran concurrently.
Overlapped(r) == \E q \in ReqIds : q < r /\ q \notin reqs[r].seen

\* C8 witness: two reactions by distinct users and a comment on one jot, each
\* arriving while an earlier one was under way, all answered with success.
C8_Witness ==
    \E j \in DOMAIN db.jots :
        /\ \A r \in ReqIds : AddedReaction(r, j) \/ AddedComment(r, j)
        /\ \E r1, r2 \in ReqIds : /\ AddedReaction(r1, j) /\ AddedReaction(r2, j)
                                   /\ reqs[r1].uid # reqs[r2].uid
        /\ \A r \in ReqIds : r > 1 => Overlapped(r)

\* r2 is the request right after r1: r1 was answered before r2 arrived, and
\* every other request made was answered before r1 arrived.
Consecutive(r1, r2) ==
    /\ r1 < r2
    /\ r1 \in reqs[r2].seen
    /\ \A q \in ReqIds \ {r1, r2} : reqs[q].op = "idle" \/ q \in reqs[r1].seen

TogglePair(r1, r2) ==
    /\ Done(r1, "toggleReaction") /\ Done(r2, "toggleReaction")
    /\ reqs[r1].uid = reqs[r2].uid /\ reqs[r1].target = reqs[r2].target
    /\ Consecutive(r1, r2)
    /\ reqs[r1].res.message = "Reaction added"
    /\ reqs[r2].text \in validReactions

\* C9: when a user's toggleReaction has added a reaction to a jot and the
\* user's next request is a toggleReaction on that jot, of any reaction kind,
\* then after it no JotReaction row of the user is left on the jot, the
\* jot's reactionsCount is what it was before the first request, and the
\* second request was answered 200 "Reaction removed".
C9_ToggleTwiceRestores ==
    \A r1, r2 \in ReqIds :
        TogglePair(r1, r2)
        => /\ reqs[r1].target \in DOMAIN db.jots
           /\ ReactionRows(db, reqs[r1].target, reqs[r1].uid) = {}
           /\ db.jots[reqs[r1].target].reactionsCount = reqs[r1].pre
           /\ reqs[r2].res = Success(200, "Reaction removed")

\* C9 witness: the two toggles carry different kinds, and another user's
\* reaction was on the jot before the first.
C9_Witness ==
    \E r1, r2 \in ReqIds :
        /\ TogglePair(r1, r2)
        /\ reqs[r1].text # reqs[r2].text
        /\ reqs[r1].pre = 1

StoryViews(s) == {x \in db.storyViews : x.storyId = s}

\* C4: viewStory applies the StoryView row and the viewsCount increment as one
\* unit, so that in every reachable state each story's viewsCount is the
\* number of its StoryView rows.
C4_ViewsCountMatchesRows ==
    \A s \in DOMAIN db.stories : db.stories[s].viewsCount = Cardinality(StoryViews(s))

ViewRequests(s, v) ==
    {r \in ReqIds : reqs[r].op = "viewStory" /\ reqs[r].target = s /\ reqs[r].uid = v}

\* The request found the story active: it was not turned down as expired or
\* missing.
FoundActive(r) == reqs[r].res.thrown \notin {"ValidationError", "NotFoundError"}

Viewers(s) == {v \in UserIds : \E r \in ViewRequests(s, v) : FoundActive(r)}

\* C5: once every request made has been answered, each viewer who sent one or
\* more viewStory requests for a story while it was active, one after another
\* or overlapping, has exactly one StoryView row for it, and the story's
\* viewsCount has grown from 0 by exactly one per such viewer.
C5_ViewedOncePerViewer ==
    (\A r \in ReqIds : reqs[r].op = "idle" \/ reqs[r].pc = "done")
    => \A s \in DOMAIN db.stories :
          /\ \A v \in Viewers(s) : Cardinality(StoryViewRows(db, s, v)) = 1
          /\ db.stories[s].viewsCount = Cardinality(Viewers(s))

\* C5 witness: one viewer's two requests overlapped, both passed the
\* already-viewed check, and a later request of the viewer found the view;
\* all are answered.
C5_Witness ==
    \E s \in DOMAIN db.stories, v \in UserIds :
        /\ \A r \in ReqIds : r \in ViewRequests(s, v) /\ reqs[r].pc = "done"
        /\ \E r \in ReqIds : reqs[r].res.thrown = "PrismaClientKnownRequestError"
        /\ \E r \in ReqIds : reqs[r].seen # {} /\ reqs[r].res.status = 200
        /\ db.stories[s].viewsCount = 1

\* C6: under createDiaryEntry and updateDiaryEntry requests interleaved in any
\* way, every diary entry has at most MAX_TAGS DiaryEntryTag rows.
C6_AtMostMaxTagsPerEntry ==
    \A e \in DOMAIN db.diaryEntries : Cardinality(EntryTagRows(db, e)) <= MAX_TAGS

\* C7: under trackEmotion requests interleaved in any way, a user has at most
\* one EmotionTracker row on any calendar day.
C7_OneTrackerPerDay ==
    \A x, y \in db.emotionTrackers :
        (x.userId = y.userId /\ StartOfDay(x.date) = StartOfDay(y.date)) => x.id = y.id

\* C10: a followUser whose pre-check runs while the Follow row of its pair
\* exists is answered with ValidationError (400), and that step leaves the
\* store, hence every Follow row and every counter, as it was.
C10_RefollowRejected ==
    [][\A r \in ReqIds :
          (/\ At(r, "followUser", "checkFollow")
           /\ FollowRows(db, reqs[r].uid, reqs[r].target) # {}
           /\ reqs'[r] # reqs[r])
          => /\ reqs'[r].pc = "done"
             /\ reqs'[r].res.thrown = "ValidationError"
             /\ reqs'[r].res.status = 400
             /\ db' = db]_vars

\* C10 witness: a second follow of a followed pair has been turned down and
\* the pair is still counted once.
C10_Witness ==
    \E r \in ReqIds :
        /\ Done(r, "followUser")
        /\ reqs[r].res.message = "Already following this user"
        /\ Cardinality(FollowRows(db, reqs[r].uid, reqs[r].target)) = 1
        /\ db.users[reqs[r].uid].followingCount = 1
        /\ db.users[reqs[r].target].followersCount = 1

\* C11: an unfollowUser whose lookup runs while no Follow row of its pair
\* exists is answered with ValidationError (400), and that step leaves the
\* store, hence every Follow row and every counter, as it was.
C11_UnfollowMissingRejected ==
    [][\A r \in ReqIds :
          (/\ At(r, "unfollowUser", "start")
           /\ ~(\E f \in db.follows : /\ f.followerId = reqs[r].uid
                                       /\ f.followingId = reqs[r].target)
           /\ reqs'[r] # reqs[r])
          => /\ reqs'[r].pc = "done"
             /\ reqs'[r].res.thrown = "ValidationError"
             /\ reqs'[r].res.status = 400
             /\ db' = db]_vars

\* C11 witness: an unfollow of a pair that is not followed has been turned
\* down while another pair is followed and counted.
C11_Witness ==
    \E r \in ReqIds :
        /\ Done(r, "unfollowUser")
        /\ reqs[r].res.message = "You are not following this user"
        /\ FollowRows(db, reqs[r].uid, reqs[r].target) = {}
        /\ db.follows # {}
        /\ \A u \in UserIds : FollowCountersExact(u)

\* C12: a followUser whose transaction runs while the Follow row of its pair
\* exists, so that the insert breaks the unique index, is answered with
\* ConflictError (409).
C12_RacingFollowConflict ==
    [][\A r \in ReqIds :
          (/\ At(r, "followUser", "tx")
           /\ FollowRows(db, reqs[r].uid, reqs[r].target) # {}
           /\ reqs'[r] # reqs[r])
          => /\ reqs'[r].res.thrown = "ConflictError"
             /\ reqs'[r].res.status = 409]_vars

\* The checks createDiaryEntry makes before it looks at the tags: title,
\* content and diary id are there, the diary exists and is the caller's.
PassesCreateChecks(r) ==
    LET b == reqs[r].body
    IN /\ ~Missing(b.title)
       /\ ~Missing(b.content)
       /\ b.diaryId \in DOMAIN db.diaries
       /\ db.diaries[b.diaryId].userId = reqs[r].uid

\* C13: a createDiaryEntry whose tag list holds more than 5 names once trimmed,
\* lower-cased and freed of empty names ends in its first step with the store
\* unchanged (no DiaryEntry, Tag or DiaryEntryTag row written), and with
\* MaxTagsError (400) when the request passes the checks made before the tags.
C13_TooManyTagsWritesNothing ==
    [][\A r \in ReqIds :
          (/\ At(r, "createDiaryEntry", "start")
           /\ Len(ParseTags(reqs[r].body.tags)) > 5
           /\ reqs'[r] # reqs[r])
          => /\ reqs'[r].pc = "done"
             /\ reqs'[r].res.thrown # ""
             /\ db' = db
             /\ PassesCreateChecks(r) =>
                    /\ reqs'[r].res.thrown = "MaxTagsError"
                    /\ reqs'[r].res.status = 400]_vars

\* C13 witness: a request naming six tags has been answered with MaxTagsError
\* while another has stored an entry with tags.
C13_Witness ==
    \E r, q \in ReqIds :
        /\ Done(r, "createDiaryEntry")
        /\ Len(ParseTags(reqs[r].body.tags)) = 6
        /\ reqs[r].res.thrown = "MaxTagsError"
        /\ Succeeded(q, "createDiaryEntry")
        /\ DOMAIN db.diaryEntries = {1, 2}
        /\ Cardinality(db.diaryEntryTags) = 3
        /\ Cardinality(db.tags) = 3

\* C14: the step of getDiaryById or getDiaryEntries that loads an existing
\* diary answers a caller who is not its owner with AuthorizationError (403)
\* when the diary is private, and lets any caller of a public diary and the
\* owner of any diary through: getDiaryById answers 200 at once, getDiaryEntries
\* goes on to read the entries and then answers 200 whatever happens to the
\* diary meanwhile.
C14_PrivateDiaryOwnerOnly ==
    /\ [](\A r \in ReqIds :
            (Done(r, "getDiaryEntries") /\ reqs[r].res.thrown = "")
                => reqs[r].res.status = 200)
    /\ [][\A r \in ReqIds :
             (/\ \/ At(r, "getDiaryById", "start")
                 \/ At(r, "getDiaryEntries", "start")
              /\ reqs[r].target \in DOMAIN db.diaries
              /\ reqs'[r] # reqs[r])
             => LET diary == db.diaries[reqs[r].target]
                IN IF diary.userId # reqs[r].uid /\ diary.isPublic = FALSE
                   THEN /\ reqs'[r].pc = "done"
                        /\ reqs'[r].res.thrown = "AuthorizationError"
                        /\ reqs'[r].res.status = 403
                   ELSE /\ reqs'[r].res.thrown = ""
                        /\ reqs[r].op = "getDiaryById" =>
                               reqs'[r].pc = "done" /\ reqs'[r].res.status = 200
                        /\ reqs[r].op = "getDiaryEntries" => reqs'[r].pc = "findMany"]_vars

\* C14 witness: a diary made public by its owner has been read by the other
\* user, entries included.
C14_Witness ==
    \E r \in ReqIds :
        /\ Succeeded(r, "getDiaryEntries")
        /\ reqs[r].target \in DOMAIN db.diaries
        /\ db.diaries[reqs[r].target].userId # reqs[r].uid
        /\ db.diaries[reqs[r].target].isPublic
        /\ reqs[r].val = 1

\* The owners of the row a request names, as the handler will load it: no
\* owner if the row does not exist.
OwnersOfTarget(r) ==
    LET t == reqs[r].target
        op == reqs[r].op
    IN CASE op \in {"updateDiary", "deleteDiary"} ->
               {db.diaries[d].userId : d \in DOMAIN db.diaries \cap {t}}
         [] op \in {"updateDiaryEntry", "deleteDiaryEntry"} ->
               {db.diaryEntries[e].userId : e \in DOMAIN db.diaryEntries \cap {t}}
         [] op = "deleteJot" ->
               {db.jots[j].userId : j \in DOMAIN db.jots \cap {t}}
         [] op = "deleteComment" ->
               {x.userId : x \in {y \in db.jotComments : y.id = t}}
         [] op \in {"deleteStory", "getStoryViews"} ->
               {db.stories[x].userId : x \in DOMAIN db.stories \cap {t}}
         [] OTHER -> {}

\* C15: the first step of updateDiary, deleteDiary, updateDiaryEntry,
\* deleteDiaryEntry, deleteJot, deleteComment, deleteStory and getStoryViews,
\* taken when the row named exists and its owner is not the caller, ends the
\* request with AuthorizationError (403) and leaves every store row and the
\* media service's removal requests as they were.
C15_NonOwnerChangesNothing ==
    [][\A r \in ReqIds :
          (/\ reqs[r].pc = "start"
           /\ OwnersOfTarget(r) # {}
           /\ reqs[r].uid \notin OwnersOfTarget(r)
           /\ reqs'[r] # reqs[r])
          => /\ reqs'[r].pc = "done"
             /\ reqs'[r].res.thrown = "AuthorizationError"
             /\ reqs'[r].res.status = 403
             /\ db' = db
             /\ media' = media]_vars

\* C15 witness: a comment has been written, its deletion by another user has
\* been turned down, and the comment is still there and counted.
C15_Witness ==
    \E r, q \in ReqIds :
        /\ Succeeded(q, "addComment")
        /\ Done(r, "deleteComment")
        /\ reqs[r].res.thrown = "AuthorizationError"
        /\ \E x \in db.jotComments : x.id = reqs[r].target /\ x.userId # reqs[r].uid
        /\ db.jots[reqs[q].target].commentsCount = 1
        /\ media = {}

\* C16: authenticate hands a request to the handler only if the header is
\* there, is "Bearer <token>", the token decodes and its expiry time lies in
\* the future; otherwise the request is answered 401 there and then.
C16_OnlyUnexpiredBearerPasses ==
    [][\A r \in ReqIds :
          (reqs[r].pc = "authenticate" /\ reqs'[r] # reqs[r])
          => LET h == reqs[r].header
                 wellFormed == /\ h.scheme = "Bearer"
                               /\ Len(h.rest) = 1
                               /\ h.rest[1].kind = "jwt"
                               /\ h.rest[1].exp > now
             IN IF wellFormed
                THEN reqs'[r].pc = "start"
                ELSE reqs'[r].pc = "done" /\ reqs'[r].res.status = 401]_vars

\* C17: a request that has passed authenticate as user X carries a token for
\* X signed with the server's secret, as register and login issue them.
C17_OnlySignedTokensPass ==
    \A r \in ReqIds :
        (reqs[r].header # NoHeader /\ reqs[r].pc \notin {"authenticate", "done"})
            => /\ reqs[r].header.rest[1].signed
               /\ reqs[r].header.rest[1].id = reqs[r].uid

\* The users whose email is the given one up to the case of its letters.
SameEmailUsers(email) ==
    {u \in DOMAIN db.users : ToLowerCase(db.users[u].email) = ToLowerCase(email)}

\* The fields of a register body are all there and well-formed.
WellFormedRegistration(b) ==
    /\ ~Falsy(b.firstName) /\ ~Falsy(b.lastName) /\ ~Falsy(b.email)
    /\ ~Falsy(b.password)
    /\ isValidEmail(b.email.chars)
    /\ isValidPassword(b.password.chars)

C19_ExpiryAgreesWithListing ==
    [][\A r \in ReqIds :
          (/\ At(r, "viewStory", "start")
           /\ reqs[r].target \in DOMAIN db.stories
           /\ reqs'[r] # reqs[r])
          => LET active == now < db.stories[reqs[r].target].expiresAt
                 rejected == /\ reqs'[r].pc = "done"
                             /\ reqs'[r].res.thrown = "ValidationError"
                             /\ db' = db
             IN /\ rejected <=> ~active
                /\ ~rejected <=> reqs[r].target \in NonExpired(db, now)]_vars

\* C20: a deleteEmotion that finds its emotion in use ends with ConflictError
\* and the store unchanged, and no step of deleteEmotion or trackEmotion,
\* however interleaved, removes an emotion that an EmotionTracker row names or
\* removes an EmotionTracker row.
C20_ReferencedEmotionKept ==
    /\ [][\A r \in ReqIds :
             (/\ At(r, "deleteEmotion", "count")
              /\ TrackersOf(db, reqs[r].target) # {}
              /\ reqs'[r] # reqs[r])
             => /\ reqs'[r].res.thrown = "ConflictError"
                /\ db' = db]_vars
    /\ [][/\ \A x \in db.emotionTrackers : x.emotionId \in db'.emotions
          /\ \A x \in db.emotionTrackers :
                \E y \in db'.emotionTrackers : y.id = x.id]_vars


---------------------------------------------------------------------------
(* Notifications *)

\* The notification rows a step creates.
CreatedNotifications ==
    {n \in db'.notifications : \A m \in db.notifications : m.id # n.id}

\* Request r is answered with success in this step.
SucceedsNow(r) == reqs[r].pc # "done" /\ reqs'[r].pc = "done" /\ reqs'[r].res.thrown = ""

\* The event a successful request r stands for, if it is one that notifies:
\* a follow, an added reaction or a comment on someone else's jot.
NotifyingEvent(r) ==
    \/ reqs[r].op = "followUser"
    \/ /\ reqs[r].op = "toggleReaction"
       /\ reqs'[r].res.message = "Reaction added"
       /\ reqs[r].owner # reqs[r].uid
    \/ reqs[r].op = "addComment" /\ reqs[r].owner # reqs[r].uid

NotificationType(op) ==
    IF op = "followUser" THEN "follow"
    ELSE IF op = "toggleReaction" THEN "jot_reaction" ELSE "jot_comment"

NotificationTarget(r) ==
    IF reqs[r].op = "followUser" THEN reqs[r].target ELSE reqs[r].owner

\* C21: a step creates notification rows only as the last statement of a
\* followUser, of a toggleReaction that added a reaction or of an addComment,
\* then exactly one, addressed to the followee or the jot's owner with the
\* acting user as sender; every such request answered with success has
\* created one; a removed reaction, an unfollow, a deleted comment and an
\* action on one's own jot create none; and in no state does a notification
\* have senderId equal to userId.
C21_NotificationsOnlyFromEvents ==
    /\ [](\A n \in db.notifications : n.senderId # n.userId)
    /\ [][/\ Cardinality(CreatedNotifications) <= 1
          /\ \A n \in CreatedNotifications :
                \E r \in ReqIds :
                    /\ reqs[r].op \in {"followUser", "toggleReaction", "addComment"}
                    /\ SucceedsNow(r) /\ NotifyingEvent(r)
                    /\ n.type = NotificationType(reqs[r].op)
                    /\ n.userId = NotificationTarget(r)
                    /\ n.senderId = reqs[r].uid
          /\ \A r \in ReqIds :
                SucceedsNow(r) =>
                    Cardinality(CreatedNotifications) =
                        IF /\ reqs[r].op \in {"followUser", "toggleReaction", "addComment"}
                           /\ NotifyingEvent(r)
                        THEN 1 ELSE 0]_vars

\* C21 witness: a follow and a reaction to someone else's jot have each left
\* their notification, and a comment on the commenter's own jot has left none.
C21_Witness ==
    /\ Cardinality(db.notifications) = 2
    /\ \E n \in db.notifications : n.type = "follow"
    /\ \E n \in db.notifications : n.type = "jot_reaction"
    /\ \E r \in ReqIds : Succeeded(r, "addComment") /\ reqs[r].owner = reqs[r].uid

---------------------------------------------------------------------------
(* Media-bearing writes *)

\* Request r has asked the media store to keep its file and was refused.
UploadFailed(q) == q.upload.asked /\ ~q.upload.success

\* C22: once a request's upload to the media store has failed, no step of
\* that request changes the store, and the request is answered with an error.
C22_FailedUploadWritesNothing ==
    [][\A r \in ReqIds :
          (UploadFailed(reqs'[r]) /\ reqs'[r] # reqs[r])
          => /\ db' = db
             /\ reqs'[r].pc = "done" => reqs'[r].res.thrown # ""]_vars

\* Request r is a follow or an unfollow of the caller's own id.
SelfFollowRequest(r) ==
    /\ reqs[r].op \in {"followUser", "unfollowUser"}
    /\ reqs[r].uid = reqs[r].target

\* C23: a followUser or unfollowUser on the caller's own id takes one step,
\* which answers ValidationError (400) and leaves the store as it was; and in
\* every state no Follow row has followerId equal to followingId.
C23_NoSelfFollow ==
    /\ [](\A f \in db.follows : f.followerId # f.followingId)
    /\ [][\A r \in ReqIds :
             (SelfFollowRequest(r) /\ reqs'[r] # reqs[r])
             => /\ db' = db
                /\ reqs'[r].pc = "done"
                /\ reqs'[r].res.thrown = "ValidationError"
                /\ reqs'[r].res.status = 400]_vars

\* C23 witness: while a Follow row exists, a follow and an unfollow of the
\* caller's own id have both been answered with ValidationError.
C23_Witness ==
    /\ db.follows # {}
    /\ \E r1, r2 \in ReqIds :
          /\ Done(r1, "followUser") /\ Done(r2, "unfollowUser")
          /\ reqs[r1].uid = reqs[r1].target /\ reqs[r2].uid = reqs[r2].target
          /\ reqs[r1].res.thrown = "ValidationError"
          /\ reqs[r2].res.thrown = "ValidationError"

---------------------------------------------------------------------------
(* Login answers *)

\* Request r is a login that carries an email and a password.
LoginAttempt(r) ==
    /\ reqs[r].op = "login"
    /\ ~Falsy(reqs[r].body.email) /\ ~Falsy(reqs[r].body.password)

\* The users with the email of login r, as the lookup sees them.
KnownEmail(r) == UsersByEmail(db, ToLowerCase(reqs[r].body.email.chars))

InvalidCredentials ==
    [status |-> 400, thrown |-> "ValidationError", message |-> "Invalid credentials"]

\* C24: a login whose lookup finds no user with its email, and a login whose
\* password does not match the hash of the user found, are both answered
\* with ValidationError, status 400 and the message "Invalid credentials";
\* hence any two refused logins that carry an email and a password have the
\* same answer.
C24_LoginErrorsIndistinguishable ==
    /\ [][\A r \in ReqIds :
             (/\ LoginAttempt(r) /\ reqs'[r] # reqs[r]
              /\ \/ reqs[r].pc = "start" /\ KnownEmail(r) = {}
                 \/ /\ reqs[r].pc = "compare"
                    /\ reqs[r].hash # Hash(reqs[r].body.password.chars))
             => /\ reqs'[r].pc = "done"
                /\ reqs'[r].res = InvalidCredentials
                /\ db' = db]_vars
    /\ [](\A r1, r2 \in ReqIds :
             (/\ LoginAttempt(r1) /\ LoginAttempt(r2)
              /\ reqs[r1].pc = "done" /\ reqs[r2].pc = "done"
              /\ reqs[r1].res.thrown # "" /\ reqs[r2].res.thrown # "")
             => reqs[r1].res = reqs[r2].res)

\* C24 witness: a login with an email no user has and a login with the first
\* user's email and a wrong password have both been refused, and a third login
\* has succeeded.
C24_Witness ==
    \E r1, r2, r3 \in ReqIds :
        /\ LoginAttempt(r1) /\ LoginAttempt(r2)
        /\ reqs[r1].pc = "done" /\ reqs[r2].pc = "done"
        /\ KnownEmail(r1) = {} /\ reqs[r1].res.thrown # ""
        /\ KnownEmail(r2) # {} /\ reqs[r2].loc # 0 /\ reqs[r2].res.thrown # ""
        /\ Succeeded(r3, "login")

---------------------------------------------------------------------------
(* Pagination *)

\* C25: for every page and limit parameter, absent, numeric or not,
\* parsePagination returns a page that is a number >= 1 and a limit that is a
\* number in 1..100, with page 1 when page is absent and limit 20 when limit
\* is absent, and offset = (page - 1) * limit.
C25_PaginationInRange ==
    \A r \in ReqIds :
        Done(r, "parsePagination") =>
            LET p == reqs[r].pagination
            IN /\ ~p.page.nan /\ p.page.val >= 1
               /\ ~p.limit.nan /\ p.limit.val >= 1 /\ p.limit.val <= MaxLimit
               /\ reqs[r].body.page = Undefined => p.page.val = DefaultPage
               /\ reqs[r].body.limit = Undefined => p.limit.val = DefaultLimit
               /\ ~p.offset.nan /\ p.offset.val = (p.page.val - 1) * p.limit.val

---------------------------------------------------------------------------
(* Error answers *)

\* The status each typed error carries.
TypedStatus ==
    [ValidationError |-> 400, AuthenticationError |-> 401, AuthorizationError |-> 403,
     NotFoundError |-> 404, ConflictError |-> 409, MaxTagsError |-> 400,
     RateLimitError |-> 429]

\* C26: the boundary error handler answers a typed error with that error's
\* status, and every other failure, a store error included, with status 500
\* and the generic message.
C26_TypedStatusElse500 ==
    \A r \in ReqIds :
        Done(r, "failing") =>
            IF reqs[r].res.thrown \in DOMAIN TypedStatus
            THEN reqs[r].res.status = TypedStatus[reqs[r].res.thrown]
            ELSE /\ reqs[r].res.status = 500
                 /\ reqs[r].res.message = "Internal server error"

---------------------------------------------------------------------------
(* Tags of an updated entry *)

\* The tags entry e is linked to in store d.
LinkedTags(d, e) == {t \in d.tags : \E x \in EntryTagRows(d, e) : x.tagId = t.id}

\* Every other request made so far was answered before r arrived.
RanAlone(r) == \A q \in ReqIds \ {r} : reqs[q].op = "idle" \/ q \in reqs[r].seen

SubmittedTags(r) == {reqs[r].names[i] : i \in 1..Len(reqs[r].names)}

\* C27: when an updateDiaryEntry that supplies tags and ran on its own is
\* answered with success, the entry has one DiaryEntryTag row for each name of
\* the normalized list and no other, each linking the caller's tag of that
\* name; and no step of an updateDiaryEntry that omits tags changes a
\* DiaryEntryTag row.
C27_UpdateReplacesTags ==
    [][\A r \in ReqIds :
          /\ (/\ reqs[r].op = "updateDiaryEntry" /\ SucceedsNow(r) /\ RanAlone(r)
              /\ reqs[r].body.tags # Undefined)
             => /\ {t.name : t \in LinkedTags(db', reqs[r].target)} = SubmittedTags(r)
                /\ \A t \in LinkedTags(db', reqs[r].target) : t.userId = reqs[r].uid
                /\ Cardinality(EntryTagRows(db', reqs[r].target)) = Len(reqs[r].names)
          /\ (/\ reqs[r].op = "updateDiaryEntry" /\ reqs'[r] # reqs[r]
              /\ reqs[r].body.tags = Undefined)
             => db'.diaryEntryTags = db.diaryEntryTags]_vars

\* C27 witness: an entry created with tags a, b, c has been updated to the
\* tags d, e, f, and those three are what it is linked to.
C27_Witness ==
    \E r1, r2 \in ReqIds :
        /\ Succeeded(r1, "createDiaryEntry") /\ Len(reqs[r1].names) = 3
        /\ Succeeded(r2, "updateDiaryEntry") /\ reqs[r2].target = reqs[r1].loc
        /\ r1 \in reqs[r2].seen
        /\ SubmittedTags(r2) = {<<"d">>, <<"e">>, <<"f">>}
        /\ {t.name : t \in LinkedTags(db, reqs[r2].target)} = SubmittedTags(r2)

---------------------------------------------------------------------------
(* Failed diary entry requests *)

\* Request r is answered with an error in this step.
FailsNow(r) == reqs[r].pc # "done" /\ reqs'[r].pc = "done" /\ reqs'[r].res.thrown # ""

\* C28: when a createDiaryEntry or an updateDiaryEntry that ran on its own is
\* answered with an error, the DiaryEntry, Tag and DiaryEntryTag rows are
\* those that were there when it arrived: none it wrote remains and none it
\* found has been removed.
C28_FailedEntryRequestLeavesNothing ==
    [][\A r \in ReqIds :
          (/\ reqs[r].op \in {"createDiaryEntry", "updateDiaryEntry"}
           /\ FailsNow(r) /\ RanAlone(r))
          => Snapshot(db') = reqs[r].snap]_vars

---------------------------------------------------------------------------
(* Tags *)

\* C29: under createDiaryEntry and updateDiaryEntry requests interleaved in
\* any way, at most one Tag row exists for each (name, userId), and every
\* DiaryEntryTag of an entry links a Tag of the entry's user.
C29_TagsUniquePerUser ==
    /\ \A t1, t2 \in db.tags :
          (t1.name = t2.name /\ t1.userId = t2.userId) => t1.id = t2.id
    /\ \A x \in db.diaryEntryTags :
          \A t \in db.tags :
              (t.id = x.tagId /\ x.diaryEntryId \in DOMAIN db.diaryEntries)
              => t.userId = db.diaryEntries[x.diaryEntryId].userId

---------------------------------------------------------------------------
(* Counters never undercount *)

\* C30: under followUser, unfollowUser, toggleReaction, addComment,
\* deleteComment, deleteJot and deleteUser requests interleaved in any way,
\* every followersCount, followingCount, reactionsCount and commentsCount is
\* at least the number of rows it counts, and none is negative.
C30_CountersNeverUndercount ==
    /\ \A u \in DOMAIN db.users :
          /\ db.users[u].followersCount >= Cardinality(Followers(u))
          /\ db.users[u].followingCount >= Cardinality(Following(u))
          /\ db.users[u].followersCount >= 0
          /\ db.users[u].followingCount >= 0
    /\ \A j \in DOMAIN db.jots :
          /\ db.jots[j].reactionsCount >= Cardinality(JotReactions(j))
          /\ db.jots[j].commentsCount >= Cardinality(JotComments(j))
          /\ db.jots[j].reactionsCount >= 0
          /\ db.jots[j].commentsCount >= 0

\* C30 witness: a user who followed another and reacted to that user's jot has
\* deleted the account; the rows are gone and both counters still stand at 1.
C30_Witness ==
    /\ \E r \in ReqIds : Succeeded(r, "deleteUser")
    /\ \E u \in DOMAIN db.users :
          db.users[u].followersCount = 1 /\ Followers(u) = {}
    /\ \E j \in DOMAIN db.jots :
          db.jots[j].reactionsCount = 1 /\ JotReactions(j) = {}
=============================================================================
